---- MODULE Spec2Model ----
(***************************************************************************)
(* Content synchronization pipeline of the search backend:                 *)
(*   - utils/retry.js        categorizeError, isRetryableError, withRetry  *)
(*   - services/contentstack getAllEntries, transformEntry                 *)
(*   - services/supabase     batchUpsertContentEntries                     *)
(*   - jobs/syncContent.js   ContentSyncJob (run, syncContentTypes, ...)   *)
(*   - index.js              hourly scheduler and startup timer            *)
(*                                                                         *)
(* The specifications of the module:                                       *)
(*   SpecClassify  applies categorizeError / isRetryableError to an error  *)
(*   SpecRetry     executes withRetry around an operation                  *)
(*   Spec          the sync job called by the scheduler, the startup timer *)
(*                 and manual triggers, over one source                    *)
(*   SpecPipeline  the scheduled run() over every source                   *)
(*   SpecEmbed     applies processContentEntries to a list of entries      *)
(*   SpecTransform applies transformEntry to raw entries                   *)
(***************************************************************************)
EXTENDS Integers, Sequences, FiniteSets, TLC

VARIABLES
    cls,          \* error classifier run: the error, its category, the retry decision
    rt,           \* withRetry run: attempt counter, invocations, last error, result
    em,           \* processContentEntries run: entries, failed batches, embeddings, result
    tr,           \* transformEntry run: two raw entries and the ids given to them
    sk,           \* fetch-to-sink run: locales, entries, embedded entries, rows written
    statusObj,    \* the object the latest getStatus() call returned to its caller
    up,           \* batchUpsertContentEntries call: loop index, upsert calls, table
    fa,           \* getAllEntries call: pair and page in progress, request log, allEntries
    tx,           \* truncateText call: the text, the token budget, the result
    pg,           \* page loop of one (content type, locale) pair: requests, attempts, records
    isRunning,    \* ContentSyncJob.isRunning
    lastSyncTime, \* ContentSyncJob.lastSyncTime (0 = null)
    syncStats,    \* ContentSyncJob.syncStats
    flights,      \* admitted executions in flight, by admission number: position and locals
    event,        \* the call made by the latest step, and how it was answered
    startupFired, \* the startup timer of index.js has fired
    store,        \* rows of the content_entries table
    upstream,     \* records the content source holds per (content type, locale)
    clock,        \* wall clock, advanced when a timestamp is taken
    admitted,     \* number of pipeline executions admitted so far
    last          \* the execution that finished last, until the next one is admitted

clsVars == <<cls>>
rtVars  == <<rt>>
emVars  == <<em>>
trVars  == <<tr>>
skVars  == <<sk>>
jobVars == <<isRunning, lastSyncTime, syncStats, flights, event, startupFired, store, upstream, clock, admitted, last>>
vars    == <<tx, fa, cls, rt, em, tr, sk, statusObj, pg, up, isRunning, lastSyncTime, syncStats, flights, event, startupFired, store, upstream, clock, admitted, last>>

(***************************************************************************)
(* Bounds of the model                                                     *)
(***************************************************************************)
MaxPhrases == 1        \* phrases of the vocabulary one error message combines
MaxRetriesBound == 3   \* largest maxRetries option handed to withRetry
MaxRecs == 1           \* records the source holds per (content type, locale)
BulkRecs == 51         \* records per pair of the large source (two embedding batches)
MaxExecutions == 2     \* pipeline executions (run or targeted sync) admitted per behaviour
MaxEntries == 201      \* entries handed to processContentEntries
MaxUidParts == 2       \* parts between "_" of an entry uid

(***************************************************************************)
(* Errors.  An error carries the fields the classifier reads: error_code,  *)
(* error_message, status, statusCode and message.  A message is the set of *)
(* vocabulary phrases written in it; Includes is String.includes on the    *)
(* lower-cased message, so a phrase also matches inside a longer phrase.   *)
(***************************************************************************)
NoCode == "none"

Phrases ==
    { "timeout", "etimedout", "network", "connection", "econnreset", "enotfound",
      "socket hang up", "unauthorized", "authentication", "forbidden", "permission",
      "not found", "validation", "invalid", "rate limit", "too many requests",
      "connection reset", "connection refused", "network error",
      "service unavailable", "bad gateway", "gateway timeout",
      "partial", "some content types failed", "batch failed" }

\* <<p, q>>: phrase p occurs inside phrase q
SubPhrase ==
    { <<"timeout", "gateway timeout">>,
      <<"connection", "connection reset">>,
      <<"connection", "connection refused">>,
      <<"network", "network error">> }

Includes(msg, p) == \E q \in msg : p = q \/ <<p, q>> \in SubPhrase

IncludesAny(msg, ps) == \E p \in ps : Includes(msg, p)

RECURSIVE MessagesOf(_)
MessagesOf(n) ==
    IF n = 0 THEN { {} }
    ELSE MessagesOf(n - 1) \cup { m \cup { p } : m \in MessagesOf(n - 1), p \in Phrases }

\* the messages of at most MaxPhrases phrases
Messages == MessagesOf(MaxPhrases)

ErrorCodes == { NoCode, "UNAUTHORIZED", "FORBIDDEN", "RATE_LIMIT_EXCEEDED", "OTHER" }

Statuses == { 0, 400, 401, 403, 404, 422, 429, 500, 502, 503, 504 }

StatusCodes == { 0, 401, 503 }

\* error.code of a failed socket or DNS lookup
NetworkCodes == { NoCode, "ETIMEDOUT", "ECONNRESET", "ENOTFOUND" }

Errors ==
    [ error_code : ErrorCodes, error_message : BOOLEAN, code : NetworkCodes,
      status : Statuses, statusCode : StatusCodes, message : Messages ]

\* new Error(text): only a message
NewError(msg) ==
    [ error_code |-> NoCode, error_message |-> FALSE, code |-> NoCode,
      status |-> 0, statusCode |-> 0, message |-> msg ]

(***************************************************************************)
(* categorizeError (utils/retry.js)                                        *)
(***************************************************************************)
HttpStatus(e) == IF e.status # 0 THEN e.status ELSE e.statusCode

CategorizeByMessage(msg) ==
    IF IncludesAny(msg, {"timeout", "etimedout"}) THEN "TIMEOUT"
    ELSE IF IncludesAny(msg, {"network", "connection", "econnreset", "enotfound",
                              "socket hang up"}) THEN "NETWORK"
    ELSE IF IncludesAny(msg, {"unauthorized", "authentication"}) THEN "AUTHENTICATION"
    ELSE IF IncludesAny(msg, {"forbidden", "permission"}) THEN "AUTHORIZATION"
    ELSE IF Includes(msg, "not found") THEN "NOT_FOUND"
    ELSE IF IncludesAny(msg, {"validation", "invalid"}) THEN "VALIDATION"
    ELSE IF IncludesAny(msg, {"rate limit", "too many requests"}) THEN "RATE_LIMIT"
    ELSE "UNKNOWN"

CategorizeByStatus(e) ==
    LET status == HttpStatus(e) IN
    IF status = 401 THEN "AUTHENTICATION"
    ELSE IF status = 403 THEN "AUTHORIZATION"
    ELSE IF status = 404 THEN "NOT_FOUND"
    ELSE IF status = 429 THEN "RATE_LIMIT"
    ELSE IF status >= 500 THEN "SERVER_ERROR"
    ELSE IF status >= 400 THEN "CLIENT_ERROR"
    ELSE CategorizeByMessage(e.message)

categorizeError(e) ==
    LET structured == e.error_code # NoCode \/ e.error_message IN
    IF structured /\ (e.status = 401 \/ e.error_code = "UNAUTHORIZED") THEN "AUTHENTICATION"
    ELSE IF structured /\ (e.status = 403 \/ e.error_code = "FORBIDDEN") THEN "AUTHORIZATION"
    ELSE IF structured /\ (e.status = 429 \/ e.error_code = "RATE_LIMIT_EXCEEDED") THEN "RATE_LIMIT"
    ELSE IF structured /\ e.status >= 500 THEN "SERVER_ERROR"
    ELSE IF structured /\ e.status >= 400 /\ e.status < 500 THEN "CLIENT_ERROR"
    ELSE CategorizeByStatus(e)

Categories ==
    { "AUTHENTICATION", "AUTHORIZATION", "RATE_LIMIT", "TIMEOUT", "NETWORK",
      "NOT_FOUND", "VALIDATION", "SERVER_ERROR", "CLIENT_ERROR", "UNKNOWN" }

(***************************************************************************)
(* isRetryableError (utils/retry.js)                                       *)
(***************************************************************************)
RetryableCategories == { "NETWORK", "TIMEOUT", "RATE_LIMIT", "SERVER_ERROR" }

RetryableStatuses == { 429, 502, 503, 504 }

TransientMessages ==
    { "timeout", "connection reset", "connection refused", "network error",
      "socket hang up", "econnreset", "enotfound", "etimedout",
      "service unavailable", "bad gateway", "gateway timeout" }

\* variant that forgets the server errors (5xx)
isRetryableErrorNoServer(e) ==
    \/ categorizeError(e) \in { "NETWORK", "TIMEOUT", "RATE_LIMIT" }
    \/ HttpStatus(e) \in RetryableStatuses
    \/ IncludesAny(e.message, TransientMessages)

isRetryableError(e) ==
    \/ categorizeError(e) \in RetryableCategories
    \/ HttpStatus(e) \in RetryableStatuses
    \/ IncludesAny(e.message, TransientMessages)

(***************************************************************************)
(* SpecClassify: one error drawn from Errors is categorized, then the      *)
(* retry decision is taken on it.                                          *)
(***************************************************************************)
ClsIdle ==
    [ phase |-> "idle", error |-> NewError({}), category |-> "none", retryable |-> FALSE ]

ClsInit ==
    \E e \in Errors :
        cls = [ phase |-> "input", error |-> e, category |-> "none", retryable |-> FALSE ]

Categorize ==
    /\ cls.phase = "input"
    /\ cls' = [ cls EXCEPT !.phase = "categorized", !.category = categorizeError(cls.error) ]

DecideRetry ==
    /\ cls.phase = "categorized"
    /\ cls' = [ cls EXCEPT !.phase = "decided", !.retryable = isRetryableError(cls.error) ]

(***************************************************************************)
(* withRetry (utils/retry.js).  The operation's outcome at each attempt is *)
(* chosen freely: a value, or one of the sample errors.                    *)
(***************************************************************************)
Values == { "v1", "v2" }

SampleErrors ==
    { NewError({"timeout"}),
      [ NewError({"service unavailable"}) EXCEPT !.status = 503 ],
      [ NewError({"authentication"}) EXCEPT !.status = 401 ],
      [ NewError({"rate limit"}) EXCEPT !.status = 429 ],
      NewError({"bad gateway"}),
      NewError({"invalid"}) }

NoError == [ error |-> NewError({}), attempt |-> 0 ]

RtIdle ==
    [ pc |-> "idle", maxRetries |-> 0, attempt |-> 0, calls |-> 0,
      fails |-> << >>, firstError |-> NoError, lastError |-> NoError, thrown |-> NoError,
      baseDelay |-> 0, maxDelay |-> 0, jitter |-> 0, delay |-> 0,
      opValue |-> "none", result |-> "none" ]

JitterMs == 1000       \* Math.random() * 1000

\* values of the options baseDelay and maxDelay (milliseconds): the defaults
\* 1000 and 30000, and values on either side of them
BaseDelays == { 0, 1000, 40000 }

MaxDelays == { 500, 30000 }

\* integer values of Math.random() * 1000
Jitters == { 0, JitterMs \div 2, JitterMs - 1 }

Min(a, b) == IF a < b THEN a ELSE b

RECURSIVE Pow2(_)
Pow2(n) == IF n = 0 THEN 1 ELSE 2 * Pow2(n - 1)

\* variant without the cap
backoffDelayUncapped(baseDelay, attempt, jitter, maxDelay) ==
    baseDelay * Pow2(attempt - 1) + jitter

\* lines 55-58: Math.min(baseDelay * Math.pow(2, attempt - 1) + jitter, maxDelay)
backoffDelay(baseDelay, attempt, jitter, maxDelay) ==
    Min(baseDelay * Pow2(attempt - 1) + jitter, maxDelay)

RtInit ==
    \E m \in 0..MaxRetriesBound, baseDelay \in BaseDelays, maxDelay \in MaxDelays :
        rt = [ RtIdle EXCEPT !.pc = "call", !.maxRetries = m, !.attempt = 1,
                             !.baseDelay = baseDelay, !.maxDelay = maxDelay ]

\* variant that stops one attempt early
GivesUpEarly(attempt, maxRetries, e) == attempt >= maxRetries \/ ~isRetryableError(e)

\* line 39: last attempt, or shouldRetry(error) is false
GivesUp(attempt, maxRetries, e) == attempt > maxRetries \/ ~isRetryableError(e)

\* variant that raises the error of the first attempt
raisedFirst(error, firstError) == firstError

\* line 51, `throw error`: the error caught from the attempt that just failed
raised(error, firstError) == error

OperationSucceeds ==
    /\ rt.pc = "call"
    /\ \E v \in Values :
          rt' = [ rt EXCEPT !.pc = "returned", !.calls = @ + 1,
                            !.opValue = v, !.result = v ]

OperationFails ==
    /\ rt.pc = "call"
    /\ \E e \in SampleErrors, jitter \in Jitters :
          LET err == [ error |-> e, attempt |-> rt.attempt ]
              sleeps == ~GivesUp(rt.attempt, rt.maxRetries, e)
          IN
          /\ ~sleeps => jitter = 0
          /\ rt' = [ rt EXCEPT
                    !.jitter = IF sleeps THEN jitter ELSE @,
                    !.delay = IF sleeps
                              THEN backoffDelay(rt.baseDelay, rt.attempt, jitter, rt.maxDelay)
                              ELSE @,
                    !.calls = @ + 1,
                    !.fails = Append(@, isRetryableError(e)),
                    !.firstError = IF rt.calls = 0 THEN err ELSE @,
                    !.lastError = err,
                    !.thrown = IF GivesUp(rt.attempt, rt.maxRetries, e)
                               THEN raised(err, IF rt.calls = 0 THEN err ELSE rt.firstError)
                               ELSE @,
                    !.pc = IF GivesUp(rt.attempt, rt.maxRetries, e) THEN "raised" ELSE "sleep" ]

\* await sleep(delay); attempt++; loop test; line 75 after the loop
SleepThenNextAttempt ==
    /\ rt.pc = "sleep"
    /\ rt' = [ rt EXCEPT
                 !.attempt = @ + 1,
                 !.pc = IF rt.attempt + 1 <= rt.maxRetries + 1 THEN "call" ELSE "raised",
                 !.thrown = IF rt.attempt + 1 <= rt.maxRetries + 1 THEN @ ELSE rt.lastError ]

(***************************************************************************)
(* formatContentstackError (services/contentstack): the text of the        *)
(* message built for a failure of the source, as the phrases it contains.  *)
(***************************************************************************)
CategoryPhrases(cat) ==
    CASE cat = "TIMEOUT" -> {"timeout"}
      [] cat = "NETWORK" -> {"network"}
      [] cat = "AUTHENTICATION" -> {"authentication"}
      [] cat = "VALIDATION" -> {"validation"}
      [] OTHER -> {}

StatusPhrases(status, msg) ==
    CASE status = 401 -> {"authentication"}
      [] status = 403 -> {"forbidden", "permission"}
      [] status = 404 -> {"not found"}
      [] status = 429 -> {"rate limit", "too many requests"}
      [] status = 500 -> {}
      [] status = 502 -> {"bad gateway"}
      [] status = 503 -> {"service unavailable"}
      [] status = 504 -> {"gateway timeout"}
      [] OTHER -> msg

formatContentstackError(e) ==
    LET formatted == IF e.error_message THEN {}
                     ELSE IF HttpStatus(e) # 0 THEN StatusPhrases(HttpStatus(e), e.message)
                     ELSE e.message
    IN formatted \cup CategoryPhrases(categorizeError(e))

\* throw new Error(`Contentstack API error: ${formatContentstackError(error)}`)
ContentstackApiError(e) == NewError(formatContentstackError(e))

(***************************************************************************)
(* The content source, the configured locales and transformEntry           *)
(***************************************************************************)
BlogPost == << "blog", "post" >>   \* content type uid blog_post, split at "_"
Page == << "page" >>

ContentTypes == { BlogPost, Page }

DiscoveredTypes == { << >>, << BlogPost >>, << BlogPost, Page >> }

ConfiguredLocales == << "en-us", "fr-fr" >>   \* CONTENTSTACK_LOCALES=en-us,fr-fr

DefaultLocale == << "en-us" >>

AllLocales == { "en-us", "fr-fr" }

Pairs == ContentTypes \X AllLocales

\* the source: the content types it lists and the entries of each pair; an entry
\* of a listed type exists in every locale
UpstreamStates ==
    { [ types |-> ts,
        recs |-> [ p \in Pairs |->
                     IF p[1] \in { ts[i] : i \in 1..Len(ts) } THEN n[p[1]] ELSE 0 ] ] :
        ts \in DiscoveredTypes, n \in [ ContentTypes -> 0..MaxRecs ] }

\* failures of the source seen by the job during one request
SourceErrors ==
    { NewError({"timeout"}),
      [ NewError({}) EXCEPT !.status = 503 ],
      [ NewError({}) EXCEPT !.status = 401 ] }

\* getContentTypes answered
DiscoveryOk == [ NewError({}) EXCEPT !.error_code = "ok" ]

DiscoveryOutcomes == { DiscoveryOk } \cup SourceErrors

RECURSIVE Concat(_)
Concat(ss) == IF ss = << >> THEN << >> ELSE Head(ss) \o Concat(Tail(ss))

SeqSet(s) == { s[i] : i \in 1..Len(s) }

\* variant whose id leaves the locale out
transformEntryNoLocale(uid, contentType, locale) ==
    [ id |-> contentType \o uid,
      uid |-> uid,
      title |-> TRUE,
      content_type |-> contentType,
      locale |-> locale ]

\* variant whose id leaves the content type out
transformEntryNoType(uid, contentType, locale) ==
    [ id |-> uid \o << locale >>,
      uid |-> uid,
      title |-> TRUE,
      content_type |-> contentType,
      locale |-> locale ]

\* id: `${contentType}_${uid}_${locale}`; a string is the sequence of the parts
\* that "_" separates in it, so that joining with "_" is concatenation
transformEntry(uid, contentType, locale) ==
    [ id |-> contentType \o uid \o << locale >>,
      uid |-> uid,
      title |-> TRUE,
      content_type |-> contentType,
      locale |-> locale ]

\* the entries of one (content type, locale) pair, transformed page by page
PairEntries(recs, contentType, locale) ==
    [ k \in 1..recs[<< contentType, locale >>] |-> transformEntry(<< k >>, contentType, locale) ]

\* the (content type, locale) loop of getAllEntries, content type first
PairSeq(types, locales) ==
    Concat([ i \in 1..Len(types) |-> [ j \in 1..Len(locales) |-> << types[i], locales[j] >> ] ])

(***************************************************************************)
(* SpecTransform: transformEntry applied to two raw entries, the first one *)
(* twice                                                                   *)
(***************************************************************************)
UidParts == { "post", "x" }

RECURSIVE UidsOf(_)
UidsOf(n) ==
    IF n = 0 THEN { << >> }
    ELSE UidsOf(n - 1) \cup { Append(u, p) : u \in UidsOf(n - 1), p \in UidParts }

\* entry uids of 1..MaxUidParts parts
Uids == UidsOf(MaxUidParts) \ { << >> }

TypeUids == { BlogPost, Page, << "blog" >> }

Triples == [ contentType : TypeUids, uid : Uids, locale : AllLocales ]

NoId == << >>

TrIdle ==
    [ phase |-> "idle",
      a |-> [ contentType |-> Page, uid |-> << "x" >>, locale |-> "en-us" ],
      b |-> [ contentType |-> Page, uid |-> << "x" >>, locale |-> "en-us" ],
      idA |-> NoId, idAgain |-> NoId, idB |-> NoId ]

TrInit ==
    \E a \in Triples, b \in Triples :
        tr = [ TrIdle EXCEPT !.phase = "input", !.a = a, !.b = b ]

Transform ==
    /\ tr.phase = "input"
    /\ tr' = [ tr EXCEPT
                 !.phase = "done",
                 !.idA = transformEntry(tr.a.uid, tr.a.contentType, tr.a.locale).id,
                 !.idAgain = transformEntry(tr.a.uid, tr.a.contentType, tr.a.locale).id,
                 !.idB = transformEntry(tr.b.uid, tr.b.contentType, tr.b.locale).id ]

(***************************************************************************)
(* getAllEntries (services/contentstack).  discovery is the outcome of     *)
(* getContentTypes (DiscoveryOk or the error it throws after its retries), failed *)
(* the pairs whose page request fails after its retries.  shape is how the *)
(* service answers: the job also guards against a value that is no array.  *)
(***************************************************************************)
NotArray == [ kind |-> "not_array", entries |-> << >>, error |-> NewError({}) ]

ArrayOf(entries) == [ kind |-> "array", entries |-> entries, error |-> NewError({}) ]

Thrown(e) == [ kind |-> "throw", entries |-> << >>, error |-> e ]

CollectEntries(types, locales, failed) ==
    LET ps == PairSeq(types, locales) IN
    Concat([ i \in 1..Len(ps) |->
               IF ps[i] \in failed THEN << >>
               ELSE PairEntries(upstream.recs, ps[i][1], ps[i][2]) ])

\* variant without the per-pair catch: one failing pair aborts the fetch
getAllEntriesAborting(locales, discovery, failed, failure) ==
    IF discovery # DiscoveryOk THEN Thrown(ContentstackApiError(ContentstackApiError(discovery)))
    ELSE IF failed \cap SeqSet(PairSeq(upstream.types, locales)) # {}
         THEN Thrown(ContentstackApiError(ContentstackApiError(failure)))
    ELSE ArrayOf(CollectEntries(upstream.types, locales, failed))

getAllEntries(locales, discovery, failed, failure) ==
    IF discovery # DiscoveryOk THEN Thrown(ContentstackApiError(ContentstackApiError(discovery)))
    ELSE ArrayOf(CollectEntries(upstream.types, locales, failed))

(***************************************************************************)
(* validateContentResponse, isRecoverableError (jobs/syncContent.js)       *)
(***************************************************************************)
SampleSize == 5

ValidEntry(entry) ==
    /\ entry.id # << >>
    /\ entry.title
    /\ entry.content_type # << >>
    /\ entry.locale # ""

validateContentResponse(resp) ==
    /\ resp.kind = "array"
    /\ \A i \in 1..Min(SampleSize, Len(resp.entries)) : ValidEntry(resp.entries[i])

RecoverablePatterns ==
    { "partial", "some content types failed", "batch failed", "connection", "timeout" }

isRecoverableError(e) ==
    \/ categorizeError(e) \in { "NETWORK", "TIMEOUT", "RATE_LIMIT", "SERVER_ERROR" }
    \/ IncludesAny(e.message, RecoverablePatterns)

(***************************************************************************)
(* Embedding service (services/embeddings) and store (services/supabase)   *)
(***************************************************************************)
EmbedBatchSize == 100

UpsertBatchSize == 100

NumBatches(n, size) == (n + size - 1) \div size

BatchOf(i, size) == ((i - 1) \div size) + 1

\* null in the embeddings array
NullEmbedding == << >>

\* a vector that stands in for a failure
ZeroVector == << 0 >>

\* response.data[k].embedding: the vector the provider returns for a text
Vector(text) == << text >>

\* generateEmbeddingText(entry): the text built from the entry's own data
EmbeddingText(entry) == entry.id

\* texts.slice(i, i + batchSize) for batch number b
BatchSlice(texts, batchSize, b) ==
    SubSeq(texts, (b - 1) * batchSize + 1, Min(Len(texts), b * batchSize))

\* variant that fills a failed batch with zero vectors
generateEmbeddingsPlaceholder(texts, batchSize, failedBatches) ==
    Concat([ b \in 1..NumBatches(Len(texts), batchSize) |->
               LET batch == BatchSlice(texts, batchSize, b) IN
               IF b \in failedBatches
               THEN [ k \in 1..Len(batch) |-> ZeroVector ]
               ELSE [ k \in 1..Len(batch) |-> Vector(batch[k]) ] ])

\* generateEmbeddings(texts, batchSize) for a non-empty texts: batch by batch,
\* the vectors of the response, or as many nulls when the batch fails
generateEmbeddings(texts, batchSize, failedBatches) ==
    Concat([ b \in 1..NumBatches(Len(texts), batchSize) |->
               LET batch == BatchSlice(texts, batchSize, b) IN
               IF b \in failedBatches
               THEN [ k \in 1..Len(batch) |-> NullEmbedding ]
               ELSE [ k \in 1..Len(batch) |-> Vector(batch[k]) ] ])

\* entry.embedding !== null
HasEmbedding(entry) == entry.embedding # NullEmbedding

\* entries.map((entry, index) => ({ ...entry, embedding: embeddings[index] }))
\*        .filter((entry) => entry.embedding !== null)
CombineEntries(entries, embeddings) ==
    LET combined == [ i \in 1..Len(entries) |->
                        [ id |-> entries[i].id, uid |-> entries[i].uid,
                          title |-> entries[i].title,
                          content_type |-> entries[i].content_type,
                          locale |-> entries[i].locale,
                          embedding |-> embeddings[i] ] ]
    IN SelectSeq(combined, HasEmbedding)

\* processContentEntries(entries) when the batches in failedBatches fail
processContentEntries(entries, failedBatches) ==
    CombineEntries(entries,
                   generateEmbeddings([ i \in 1..Len(entries) |-> EmbeddingText(entries[i]) ],
                                      EmbedBatchSize, failedBatches))

(***************************************************************************)
(* SpecEmbed: processContentEntries over entries 1..n                      *)
(***************************************************************************)
EmIdle ==
    [ phase |-> "idle", entries |-> << >>, failedBatches |-> {}, calls |-> << >>,
      embeddings |-> << >>, processed |-> << >> ]

EmInit ==
    \E n \in 0..MaxEntries :
        em = [ EmIdle EXCEPT !.phase = "input",
                             !.entries = [ k \in 1..n |->
                                             transformEntry(<< k >>, BlogPost, "en-us") ] ]

\* generateEmbeddings, lines 67-101: a batch is one
\* `await this.openai.embeddings.create(...)` inside a try whose catch pushes the
\* nulls; the call is made once for the batch, whether it answers or fails
ProviderCalls == 1

\* await this.generateEmbeddings(embeddingTexts)
GenerateEmbeddings ==
    /\ em.phase = "input"
    /\ IF Len(em.entries) = 0
       THEN em' = [ em EXCEPT !.phase = "raised" ]
       ELSE \E failedBatches \in SUBSET (1..NumBatches(Len(em.entries), EmbedBatchSize)) :
              em' = [ em EXCEPT
                        !.phase = "embedded",
                        !.failedBatches = failedBatches,
                        !.calls = [ b \in 1..NumBatches(Len(em.entries), EmbedBatchSize) |->
                                      ProviderCalls ],
                        !.embeddings =
                            generateEmbeddings(
                                [ i \in 1..Len(em.entries) |-> EmbeddingText(em.entries[i]) ],
                                EmbedBatchSize, failedBatches) ]

\* the map and the filter of processContentEntries
CombineAndFilter ==
    /\ em.phase = "embedded"
    /\ em' = [ em EXCEPT !.phase = "done",
                         !.processed = CombineEntries(em.entries, em.embeddings) ]

\* the locale of a row: entry.locale || "en-us"
RowLocale(entry) == IF entry.locale = "" THEN "en-us" ELSE entry.locale

\* the test of lines 242-247: !entry.id || !entry.title || !entry.content_type ||
\* !entry.embedding
RowValid(entry) ==
    /\ entry.id # << >>
    /\ entry.title
    /\ entry.content_type # << >>
    /\ entry.embedding # NullEmbedding

\* the row pushed for an entry, lines 262-271
SupabaseRow(entry) ==
    [ id |-> entry.id,
      title |-> entry.title,
      content_type |-> entry.content_type,
      locale |-> RowLocale(entry),
      embedding |-> entry.embedding ]

\* rows built by syncToSupabase from the entries that pass its test
SupabaseEntries(processed) ==
    LET valid == SelectSeq(processed, RowValid)
    IN [ i \in 1..Len(valid) |-> SupabaseRow(valid[i]) ]

Ids(rows) == { rows[i].id : i \in 1..Len(rows) }

\* variant that inserts the rows of the batch instead of overwriting on a conflict
UpsertBatchInsert(table, batch) ==
    [ i \in DOMAIN table \cup Ids(batch) |->
        LET HasId(row) == row.id = i
        IN (IF i \in DOMAIN table THEN table[i] ELSE << >>) \o SelectSeq(batch, HasId) ]

\* upsert(batch, { onConflict: "id" }): the table maps an id to its rows; a row of
\* the batch replaces the rows of its id
UpsertBatch(table, batch) ==
    [ i \in DOMAIN table \cup Ids(batch) |->
        IF i \in Ids(batch)
        THEN << batch[CHOOSE k \in 1..Len(batch) :
                        /\ batch[k].id = i
                        /\ \A m \in 1..Len(batch) : batch[m].id = i => m <= k] >>
        ELSE table[i] ]

\* the first n batches of rows, upserted in order
RECURSIVE UpsertBatches(_, _, _)
UpsertBatches(table, rows, n) ==
    IF n = 0 THEN table
    ELSE UpsertBatch(UpsertBatches(table, rows, n - 1),
                     SubSeq(rows, (n - 1) * UpsertBatchSize + 1,
                            Min(Len(rows), n * UpsertBatchSize)))

\* batchUpsertContentEntries: batches in order; failAt = 0, or the batch whose
\* write fails: the batches before it stay written
batchUpsertContentEntries(table, rows, failAt) ==
    IF failAt = 0 THEN UpsertBatches(table, rows, NumBatches(Len(rows), UpsertBatchSize))
    ELSE UpsertBatches(table, rows, failAt - 1)

RECURSIVE SumLen(_, _)
SumLen(table, ids) ==
    IF ids = {} THEN 0
    ELSE LET i == CHOOSE x \in ids : TRUE IN Len(table[i]) + SumLen(table, ids \ {i})

RowCount(table) == SumLen(table, DOMAIN table)

StoreErrors == { NewError({"connection"}) }

(***************************************************************************)
(* ContentSyncJob (jobs/syncContent.js) and its callers (index.js)         *)
(***************************************************************************)
NoMessage == {}

NullError == [ message |-> NoMessage, category |-> "null" ]

NoStats ==
    [ totalRuns |-> 0, successfulRuns |-> 0, lastRunStatus |-> "null", lastError |-> NullError ]

\* the locals of one execution; term, outcome, err and failedAt say how it ended
NoExecution ==
    [ id |-> 0, op |-> "none", pc |-> "none", outcome |-> "none", term |-> "none",
      err |-> NoMessage, cause |-> NoMessage, failedAt |-> "none",
      primary |-> "none", primaryValid |-> "none", caught |-> NewError({}),
      failedPairs |-> {}, pairFailure |-> "none", ladders |-> 0, strategies |-> << >>,
      ladderLocales |-> << >>, fromCatch |-> FALSE, primaryErr |-> NoMessage,
      types |-> << >>, entries |-> << >>, processed |-> << >>,
      didEmbed |-> FALSE, embedDone |-> 0, failedBatches |-> {}, didStore |-> FALSE,
      storeAtStart |-> << >>, statsAtStart |-> NoStats,
      prevTerm |-> "none", prevIds |-> {} ]

NoEvent == [ via |-> "none", op |-> "none", result |-> "none" ]

StepEvent == [ via |-> "none", op |-> "none", result |-> "step" ]

JobInit ==
    /\ isRunning = FALSE
    /\ lastSyncTime = 0
    /\ syncStats = NoStats
    /\ flights = << >>
    /\ event = NoEvent
    /\ startupFired = FALSE
    /\ store = << >>
    /\ clock = 0
    /\ admitted = 0
    /\ last = NoExecution

JobIdle ==
    /\ JobInit
    /\ upstream = [ types |-> << >>, recs |-> [ p \in Pairs |-> 0 ] ]

\* a source whose entries do not fit into one embedding batch
UpstreamBulk ==
    [ types |-> << BlogPost >>,
      recs |-> [ p \in Pairs |-> IF p[1] = BlogPost THEN BulkRecs ELSE 0 ] ]

UpstreamInit == upstream \in UpstreamStates

\* one source: blog_post is listed and has an entry in each locale
UpstreamSample ==
    upstream = [ types |-> << BlogPost >>,
                 recs |-> [ p \in Pairs |-> IF p[1] = BlogPost THEN 1 ELSE 0 ] ]

\* ---- guards -------------------------------------------------------------
\* run() without its guard
runGuardMissing == FALSE

\* run(), line 22
runGuard == isRunning

\* syncContentTypes() without its guard
syncGuardMissing == FALSE

\* syncContentTypes(), line 329
syncGuard == isRunning

\* the guard of syncContentTypes moved inside the try: the finally releases
afterSyncRejectedReleased == FALSE

\* isRunning after a call that the guard of syncContentTypes rejected:
\* the throw is in front of the try, so the finally does not run
afterSyncRejected == isRunning

\* no finally: the guard is released on a normal return only
afterFinallyOnlyOnReturn(term) == IF term = "error" THEN isRunning ELSE FALSE

\* isRunning after the finally block of an admitted execution
afterFinally(term) == FALSE

\* run() without the test of line 38
noContentNever(entries) == FALSE

\* line 38: contentEntries.length === 0
noContent(entries) == Len(entries) = 0

\* run() without the test of line 49
noEmbeddingsNever(processed) == FALSE

\* line 49: processedEntries.length === 0
noEmbeddings(processed) == Len(processed) = 0

\* ---- steps of an admitted execution -------------------------------------
Without(f, x) == [ y \in DOMAIN f \ {x} |-> f[y] ]

With(f, x, v) == [ y \in DOMAIN f \cup {x} |-> IF y = x THEN v ELSE f[y] ]

\* a step that leaves the execution in flight
Advance(rec) ==
    /\ flights' = With(flights, rec.id, rec)
    /\ event' = StepEvent
    /\ UNCHANGED << isRunning, lastSyncTime, syncStats, startupFired, store, upstream,
                    clock, admitted, last >>

\* the counter moved before the two early returns
StatsAfterCountingEarlyReturns(op, term, e) ==
    IF op # "run" THEN syncStats
    ELSE CASE term = "error" ->
                [ syncStats EXCEPT !.lastRunStatus = "error",
                                   !.lastError = [ message |-> e.message,
                                                   category |-> categorizeError(e) ] ]
           [] OTHER -> [ syncStats EXCEPT !.successfulRuns = @ + 1,
                                          !.lastRunStatus = term ]

\* variant in which syncContentTypes keeps the statistics as run() does
StatsAfterAnyOperation(op, term, e) ==
    CASE term \in { "success", "completed" } ->
           [ syncStats EXCEPT !.successfulRuns = @ + 1,
                              !.lastRunStatus = "success",
                              !.lastError = NullError ]
      [] term = "error" ->
           [ syncStats EXCEPT !.lastRunStatus = "error",
                              !.lastError = [ message |-> e.message,
                                              category |-> categorizeError(e) ] ]
      [] OTHER -> [ syncStats EXCEPT !.lastRunStatus = term ]

\* variant in which every run that does not raise clears lastError
StatsAfterClearingOnEarlyReturns(op, term, e) ==
    IF op # "run" THEN syncStats
    ELSE CASE term = "success" ->
                [ syncStats EXCEPT !.successfulRuns = @ + 1,
                                   !.lastRunStatus = "success",
                                   !.lastError = NullError ]
           [] term = "error" ->
                [ syncStats EXCEPT !.lastRunStatus = "error",
                                   !.lastError = [ message |-> e.message,
                                                   category |-> categorizeError(e) ] ]
           [] OTHER -> [ syncStats EXCEPT !.lastRunStatus = term,
                                          !.lastError = NullError ]

\* syncStats after run() has ended in term (syncContentTypes leaves it alone)
StatsAfter(op, term, e) ==
    IF op # "run" THEN syncStats
    ELSE CASE term = "success" ->
                [ syncStats EXCEPT !.successfulRuns = @ + 1,
                                   !.lastRunStatus = "success",
                                   !.lastError = NullError ]
           [] term = "error" ->
                [ syncStats EXCEPT !.lastRunStatus = "error",
                                   !.lastError = [ message |-> e.message,
                                                   category |-> categorizeError(e) ] ]
           [] OTHER -> [ syncStats EXCEPT !.lastRunStatus = term ]

\* catch block without its throw
OutcomeSwallowed(term) == "returned"

\* how the call ends for its caller: the catch block ends with `throw error`
Outcome(term) == IF term = "error" THEN "raised" ELSE "returned"

\* the last step of an execution: status, catch and finally blocks
Finish(rec, term, e, phase, table) ==
    /\ isRunning' = afterFinally(term)
    /\ syncStats' = StatsAfter(rec.op, term, e)
    /\ IF rec.op = "run" /\ term = "success"
       THEN lastSyncTime' = clock + 1 /\ clock' = clock + 1
       ELSE UNCHANGED << lastSyncTime, clock >>
    /\ store' = table
    /\ flights' = Without(flights, rec.id)
    /\ last' = [ rec EXCEPT !.pc = "done",
                            !.term = term,
                            !.outcome = Outcome(term),
                            !.err = e.message,
                            !.failedAt = phase ]
    /\ event' = StepEvent
    /\ UNCHANGED << startupFired, upstream, admitted >>

\* run(): the entries are there; lines 38-42
ProceedWithEntries(rec, entries) ==
    IF noContent(entries)
    THEN Finish([ rec EXCEPT !.entries = entries ], "no_content", NewError({}), "none", store)
    ELSE Advance([ rec EXCEPT !.entries = entries, !.pc = "embed" ])

\* handlePartialSyncFailure(locales) is entered
EnterLadder(rec, locales, fromCatch, primaryErr) ==
    Advance([ rec EXCEPT !.pc = "fb1", !.ladders = @ + 1, !.strategies = << >>,
                         !.ladderLocales = locales, !.fromCatch = fromCatch,
                         !.primaryErr = primaryErr ])

\* the catch block of fetchContentFromContentstack, lines 136-162
CatchFetchError(rec, e) ==
    LET caught == [ rec EXCEPT !.caught = e ] IN
    IF isRecoverableError(e)
    THEN EnterLadder(caught, DefaultLocale, TRUE, e.message)
    ELSE Finish(caught, "error", NewError(e.message), "fetch", store)

\* variant in which the ladder called from the catch block is inside the try
LadderThrowsAlwaysCaught(rec, e) == CatchFetchError(rec, NewError(e.message))

\* handlePartialSyncFailure throws `Fallback sync failed: ...`, lines 706-709
LadderThrows(rec, e) ==
    IF rec.fromCatch
    THEN Finish(rec, "error", NewError(rec.primaryErr \cup e.message), "fetch", store)
    ELSE CatchFetchError(rec, NewError(e.message))

\* one of the first two strategies has answered with r
StrategyAnswer(rec, r, label, nextPc) ==
    IF r.kind = "throw"
    THEN LadderThrows([ rec EXCEPT !.strategies = Append(@, "threw"),
                                   !.cause = r.error.message ], r.error)
    ELSE IF validateContentResponse(r) /\ Len(r.entries) > 0
    THEN ProceedWithEntries([ rec EXCEPT !.strategies = Append(@, "yielded") ], r.entries)
    ELSE Advance([ rec EXCEPT !.strategies = Append(@, label), !.pc = nextPc ])

\* ---- entry points -------------------------------------------------------
\* the locals of a newly admitted execution; it remembers how the execution
\* before it ended and, after a successful run, the ids that run wrote
Admit(op, pc, contentTypes) ==
    [ NoExecution EXCEPT !.id = admitted + 1, !.op = op, !.pc = pc, !.types = contentTypes,
                         !.storeAtStart = store, !.statsAtStart = syncStats,
                         !.prevTerm = last.term,
                         !.prevIds = IF last.term = "success"
                                     THEN Ids(SupabaseEntries(last.processed)) ELSE {} ]

\* variant of run() without its totalRuns++
RunCallUncounted(via) ==
    IF runGuard
    THEN /\ event' = [ via |-> via, op |-> "run", result |-> "skipped" ]
         /\ UNCHANGED << isRunning, lastSyncTime, syncStats, flights, store, upstream,
                         clock, admitted, last >>
    ELSE /\ admitted < MaxExecutions
         /\ isRunning' = TRUE
         /\ flights' = With(flights, admitted + 1, Admit("run", "fetch", << >>))
         /\ admitted' = admitted + 1
         /\ last' = NoExecution
         /\ event' = [ via |-> via, op |-> "run", result |-> "admitted" ]
         /\ UNCHANGED << lastSyncTime, syncStats, store, upstream, clock >>

\* run(), lines 21-36: guard, isRunning = true, totalRuns++, up to the first await
RunCall(via) ==
    IF runGuard
    THEN /\ event' = [ via |-> via, op |-> "run", result |-> "skipped" ]
         /\ UNCHANGED << isRunning, lastSyncTime, syncStats, flights, store, upstream,
                         clock, admitted, last >>
    ELSE /\ admitted < MaxExecutions
         /\ isRunning' = TRUE
         /\ syncStats' = [ syncStats EXCEPT !.totalRuns = @ + 1 ]
         /\ flights' = With(flights, admitted + 1, Admit("run", "fetch", << >>))
         /\ admitted' = admitted + 1
         /\ last' = NoExecution
         /\ event' = [ via |-> via, op |-> "run", result |-> "admitted" ]
         /\ UNCHANGED << lastSyncTime, store, upstream, clock >>

\* syncContentTypes(contentTypes), lines 328-347
SyncCall(via, contentTypes) ==
    IF syncGuard
    THEN /\ isRunning' = afterSyncRejected
         /\ event' = [ via |-> via, op |-> "syncContentTypes", result |-> "raised" ]
         /\ UNCHANGED << lastSyncTime, syncStats, flights, store, upstream, clock,
                         admitted, last >>
    ELSE /\ admitted < MaxExecutions
         /\ isRunning' = TRUE
         /\ flights' = With(flights, admitted + 1,
                            Admit("syncContentTypes", "sfetch", contentTypes))
         /\ admitted' = admitted + 1
         /\ last' = NoExecution
         /\ event' = [ via |-> via, op |-> "syncContentTypes", result |-> "admitted" ]
         /\ UNCHANGED << lastSyncTime, syncStats, store, upstream, clock >>

\* index.js: cron.schedule('0 * * * *', () => syncContent.run())
Scheduler ==
    /\ RunCall("cron")
    /\ UNCHANGED startupFired

\* index.js: setTimeout(() => syncContent.run(), 5000), fires once
StartupTimer ==
    /\ ~startupFired
    /\ startupFired' = TRUE
    /\ RunCall("startup")

\* a caller of the job: contentSyncJob.syncContentTypes(["blog_post"])
DirectSync ==
    /\ UNCHANGED startupFired
    /\ SyncCall("caller", << BlogPost >>)

TargetTypes == { << BlogPost >>, << BlogPost, Page >> }

\* triggerManualSync({ contentTypes, force }), lines 458-479
ManualTrigger ==
    /\ UNCHANGED startupFired
    /\ \E force \in BOOLEAN, given \in BOOLEAN, contentTypes \in TargetTypes :
         IF isRunning /\ ~force
         THEN /\ event' = [ via |-> "trigger", op |-> "triggerManualSync", result |-> "raised" ]
              /\ UNCHANGED << isRunning, lastSyncTime, syncStats, flights, store, upstream,
                              clock, admitted, last >>
         ELSE IF given THEN SyncCall("trigger", contentTypes)
         ELSE RunCall("trigger")

\* ---- the awaits of an admitted execution --------------------------------
RelevantPairs(types, locales) == SeqSet(PairSeq(types, locales))

InFlight(pc) == { x \in DOMAIN flights : flights[x].pc = pc }

\* await contentstackService.getAllEntries(locales), lines 115-135
FetchPrimary ==
    \E x \in InFlight("fetch") :
    \E d \in DiscoveryOutcomes, e \in SourceErrors, isArray \in BOOLEAN,
       f \in SUBSET RelevantPairs(upstream.types, ConfiguredLocales) :
         LET r == IF isArray THEN getAllEntries(ConfiguredLocales, d, f, e) ELSE NotArray
             rec == [ flights[x] EXCEPT !.primary = r.kind,
                                        !.primaryValid =
                                            IF r.kind = "throw" THEN "none"
                                            ELSE IF validateContentResponse(r) THEN "valid"
                                            ELSE "invalid",
                                        !.cause = r.error.message,
                                        !.failedPairs = IF d = DiscoveryOk THEN f ELSE {},
                                        !.pairFailure =
                                            IF d = DiscoveryOk /\ f # {}
                                            THEN categorizeError(e) ELSE "none" ]
         IN /\ ~isArray => (d = DiscoveryOk /\ f = {})
            /\ IF r.kind = "throw" THEN CatchFetchError(rec, r.error)
               ELSE IF ~validateContentResponse(r)
               THEN EnterLadder(rec, ConfiguredLocales, FALSE, NoMessage)
               ELSE ProceedWithEntries(rec, r.entries)

LadderAnswers(locales) ==
    { getAllEntries(locales, d, f, e) :
        d \in DiscoveryOutcomes, e \in SourceErrors,
        f \in SUBSET RelevantPairs(upstream.types, locales) }
    \cup { NotArray }

AnswerLabel(r) == IF validateContentResponse(r) THEN "empty" ELSE "invalid"

\* strategy 1: getAllEntries(locales, 25), lines 656-669
FallbackStrategy1 ==
    \E x \in InFlight("fb1") :
    \E r \in LadderAnswers(flights[x].ladderLocales) :
         StrategyAnswer(flights[x], r, AnswerLabel(r), "fb2")

\* strategy 2: getAllEntries(["en-us"], 50), lines 673-686
FallbackStrategy2 ==
    \E x \in InFlight("fb2") :
    \E r \in LadderAnswers(DefaultLocale) :
         StrategyAnswer(flights[x], r, AnswerLabel(r), "fb3")

PriorityTypes == { BlogPost, Page }   \* of blog_post, page, article, product, news

\* priorityTypes.includes(ct.uid)
IsPriorityType(uid) == uid \in PriorityTypes

\* getCoreContentTypes, lines 715-738
getCoreContentTypes(discovery) ==
    IF discovery # DiscoveryOk THEN << BlogPost, Page >>
    ELSE LET core == SelectSeq(upstream.types, IsPriorityType)
         IN IF Len(core) = 0 THEN SubSeq(upstream.types, 1, Min(3, Len(upstream.types)))
            ELSE core

\* strategy 3: getCoreContentTypes and syncSpecificContentTypes, lines 690-705;
\* a content type whose request fails is skipped
FallbackStrategy3 ==
    \E x \in InFlight("fb3") :
    \E d \in DiscoveryOutcomes :
         LET core == getCoreContentTypes(d) IN
         \E f \in SUBSET RelevantPairs(core, DefaultLocale) :
            LET r == ArrayOf(CollectEntries(core, DefaultLocale, f)) IN
            IF validateContentResponse(r) /\ Len(r.entries) > 0
            THEN ProceedWithEntries([ flights[x] EXCEPT !.strategies = Append(@, "yielded") ],
                                    r.entries)
            ELSE ProceedWithEntries([ flights[x] EXCEPT !.strategies = Append(@, AnswerLabel(r)) ],
                                    << >>)

\* the fetch loop of syncContentTypes, lines 350-399: a failing pair is skipped
SelectiveFetch ==
    \E x \in InFlight("sfetch") :
    \E f \in SUBSET RelevantPairs(flights[x].types, ConfiguredLocales) :
         LET entries == CollectEntries(flights[x].types, ConfiguredLocales, f)
             rec == [ flights[x] EXCEPT !.primary = "array",
                                        !.failedPairs = f, !.entries = entries ]
         IN IF Len(entries) = 0
            THEN Finish(rec, "no_entries", NewError({}), "none", store)
            ELSE Advance([ rec EXCEPT !.pc = "embed" ])

\* the batch loop left after its first batch
moreBatchesNever(b, n) == FALSE

\* generateEmbeddings, line 59: another batch follows batch b of n
moreBatches(b, n) == b < n

\* processEntriesWithEmbeddings, lines 168-220: one step per embedding batch
\* (each batch is one awaited request), the last one with what the caller does
\* next
Embed ==
    \E x \in InFlight("embed") :
       LET entries == flights[x].entries
           b == flights[x].embedDone + 1
           n == NumBatches(Len(entries), EmbedBatchSize)
       IN IF ~validateContentResponse(ArrayOf(entries))
          THEN Finish([ flights[x] EXCEPT !.cause = {"invalid"} ],
                      "error", NewError({"invalid"}), "embed", store)
          ELSE IF Len(entries) = 0
          THEN Finish([ flights[x] EXCEPT !.didEmbed = TRUE, !.cause = {} ],
                      "error", NewError({}), "embed", store)
          ELSE \E ok \in BOOLEAN :
                 LET failedBatches == IF ok THEN flights[x].failedBatches
                                      ELSE flights[x].failedBatches \cup { b }
                     rec == [ flights[x] EXCEPT !.didEmbed = TRUE,
                                                !.embedDone = b,
                                                !.failedBatches = failedBatches ]
                     processed == processContentEntries(entries, failedBatches)
                 IN IF moreBatches(b, n)
                    THEN Advance(rec)
                    ELSE IF rec.op = "run" /\ noEmbeddings(processed)
                    THEN Finish(rec, "no_embeddings", NewError({}), "none", store)
                    ELSE Advance([ rec EXCEPT !.processed = processed, !.pc = "store" ])

\* syncToSupabase, lines 225-323, and the end of the execution
Store ==
    \E x \in InFlight("store") :
       LET processed == flights[x].processed
           rows == SupabaseEntries(processed)
           done == IF flights[x].op = "run" THEN "success" ELSE "completed"
       IN IF Len(processed) = 0
          THEN Finish(flights[x], done, NewError({}), "none", store)
          ELSE IF Len(rows) = 0
          THEN Finish([ flights[x] EXCEPT !.cause = {"validation"} ],
                      "error", NewError({"validation"}), "store", store)
          ELSE \E failAt \in 0..NumBatches(Len(rows), UpsertBatchSize), e \in StoreErrors :
                 LET rec == [ flights[x] EXCEPT !.didStore = TRUE ]
                     table == batchUpsertContentEntries(store, rows, failAt)
                 IN IF failAt = 0
                    THEN Finish(rec, done, NewError({}), "none", table)
                    ELSE Finish([ rec EXCEPT !.cause = e.message ],
                                "error", NewError(e.message), "store", table)

(***************************************************************************)
(* SpecSink: from the configured locales to the rows handed to the store,  *)
(* for run() and for syncContentTypes()                                    *)
(***************************************************************************)
\* values of CONTENTSTACK_LOCALES, as tokens: a locale code or the separator ","
LocaleSettings ==
    { << "en-us" >>, << "en-us", ",", "fr-fr" >>, << "en-us", "," >> }

\* split(","), and trim() for run(): the piece after a trailing "," is ""
RECURSIVE Split(_)
Split(tokens) ==
    IF tokens = << >> THEN << "" >>
    ELSE IF Head(tokens) = "," THEN << "" >> \o Split(Tail(tokens))
    ELSE IF Len(tokens) = 1 THEN << Head(tokens) >>
    ELSE << Head(tokens) >> \o Split(Tail(Tail(tokens)))

\* entries one (content type, locale) pair may answer with
PairCounts == { 0, 1, SampleSize, BulkRecs }

SkIdle ==
    [ phase |-> "idle", op |-> "none", locales |-> << >>, entries |-> << >>,
      failedBatches |-> {}, processed |-> << >>, rows |-> << >> ]

\* the entries fetched for blog_post, locale by locale, each through transformEntry
SkInit ==
    \E op \in { "run", "syncContentTypes" }, setting \in LocaleSettings :
    \E n \in [ 1..Len(Split(setting)) -> PairCounts ] :
       LET locales == Split(setting) IN
       sk = [ SkIdle EXCEPT
                !.phase = "fetched",
                !.op = op,
                !.locales = locales,
                !.entries = Concat([ j \in 1..Len(locales) |->
                                       [ k \in 1..n[j] |->
                                           transformEntry(<< k >>, BlogPost, locales[j]) ] ]) ]

\* the sample validation of the caller, then processEntriesWithEmbeddings
SinkEmbed ==
    /\ sk.phase = "fetched"
    /\ IF ~validateContentResponse(ArrayOf(sk.entries))
       THEN sk' = [ sk EXCEPT !.phase = "invalid" ]
       ELSE IF Len(sk.entries) = 0
       THEN sk' = [ sk EXCEPT !.phase = "no_content" ]
       ELSE \E failedBatches \in SUBSET (1..NumBatches(Len(sk.entries), EmbedBatchSize)) :
              LET processed == processContentEntries(sk.entries, failedBatches) IN
              sk' = [ sk EXCEPT
                        !.phase = IF sk.op = "run" /\ noEmbeddings(processed)
                                  THEN "no_embeddings" ELSE "embedded",
                        !.failedBatches = failedBatches,
                        !.processed = processed ]

\* syncToSupabase up to the call of batchUpsertContentEntries
SinkStore ==
    /\ sk.phase = "embedded"
    /\ LET rows == SupabaseEntries(sk.processed) IN
       IF Len(sk.processed) = 0
       THEN sk' = [ sk EXCEPT !.phase = "nothing_to_sync" ]
       ELSE IF Len(rows) = 0
       THEN sk' = [ sk EXCEPT !.phase = "raised" ]
       ELSE sk' = [ sk EXCEPT !.phase = "stored", !.rows = rows ]

(***************************************************************************)
(* getStatus (jobs/syncContent.js) and its caller.  An object held by      *)
(* reference is named by a reference; the fields of the object are read    *)
(* through Deref at the moment of the read.                                *)
(***************************************************************************)
StatsRef == "this.syncStats"

NoRef == "none"

Deref(ref) == IF ref = StatsRef THEN syncStats ELSE NoStats

\* getNextScheduledRun, lines 444-453
getNextScheduledRun ==
    IF lastSyncTime = 0
    THEN [ text |-> "Next hour", hourAfter |-> 0 ]
    ELSE [ text |-> "iso", hourAfter |-> lastSyncTime ]

\* the object literal of getStatus, lines 433-438: stats is this.syncStats
\* itself, not a copy
getStatus ==
    [ isRunning |-> isRunning,
      lastSyncTime |-> lastSyncTime,
      stats |-> StatsRef,
      nextScheduledRun |-> getNextScheduledRun ]

NoStatus ==
    [ returned |-> FALSE,
      value |-> [ isRunning |-> FALSE, lastSyncTime |-> 0, stats |-> NoRef,
                  nextScheduledRun |-> [ text |-> "Next hour", hourAfter |-> 0 ] ] ]

\* property access on an object: undefined for an attribute it does not have
Attr(obj, name) == IF name \in DOMAIN obj THEN obj[name] ELSE "undefined"

\* what the holder of a returned object reads in it
Seen(obj) ==
    [ isRunning |-> obj.isRunning,
      lastSyncTime |-> obj.lastSyncTime,
      stats |-> Deref(obj.stats),
      nextScheduledRun |-> obj.nextScheduledRun ]

\* a caller (monitoring, diagnose-blog-search.js) calls syncJob.getStatus()
GetStatus ==
    /\ statusObj' = [ returned |-> TRUE, value |-> getStatus ]
    /\ event' = [ via |-> "caller", op |-> "getStatus", result |-> "returned" ]
    /\ UNCHANGED << isRunning, lastSyncTime, syncStats, flights, startupFired, store,
                    upstream, clock, admitted, last >>

\* the caller writes into the object it holds: status.isRunning = !status.isRunning,
\* or status.stats.totalRuns = 0
CallerModifies ==
    /\ statusObj.returned
    /\ \E target \in { "isRunning", "stats.totalRuns" } :
         IF target = "isRunning"
         THEN /\ statusObj' = [ statusObj EXCEPT !.value.isRunning = ~@ ]
              /\ UNCHANGED syncStats
         ELSE /\ Deref(statusObj.value.stats).totalRuns # 0
              /\ syncStats' = IF statusObj.value.stats = StatsRef
                              THEN [ syncStats EXCEPT !.totalRuns = 0 ]
                              ELSE syncStats
              /\ UNCHANGED statusObj
    /\ event' = [ via |-> "caller", op |-> "modify", result |-> "done" ]
    /\ UNCHANGED << isRunning, lastSyncTime, flights, startupFired, store,
                    upstream, clock, admitted, last >>

(***************************************************************************)
(* The page loop of one (content type, locale) pair: getAllEntries         *)
(* (services/contentstack) and syncContentTypes (jobs/syncContent.js).     *)
(* Each page request is getEntriesByContentType, whose query runs under    *)
(* withRetry; a record of the source is the number of its position.        *)
(***************************************************************************)
PageCeiling == 100     \* getAllEntries: if (batchCount > 100)

SyncBatchSize == 100   \* syncContentTypes: const batchSize = 100

MaxTotal == 5          \* records of the small honest sources
MaxPageSize == 2       \* largest batchSize handed to getAllEntries
MaxRequests == 103     \* page requests followed in a loop that has no ceiling

\* honest: reports the true count and returns min(pageSize, remaining) records;
\* full: returns a full page each time and reports a count beyond every skip
PageSources(pageSize) ==
    { [ kind |-> "honest", total |-> n ] : n \in 0..MaxTotal }
    \cup { [ kind |-> "honest", total |-> PageCeiling * pageSize ],
           [ kind |-> "honest", total |-> (PageCeiling + 1) * pageSize + 1 ],
           [ kind |-> "full", total |-> 0 ] }

\* query.skip(skip).limit(limit).find(): the records of one page
PageEntries(source, skip, limit) ==
    LET n == IF source.kind = "full" THEN limit
             ELSE IF source.total <= skip THEN 0
             ELSE Min(limit, source.total - skip)
    IN [ i \in 1..n |-> skip + i ]

\* query.includeCount(): the count the source reports with the page
PageCount(source, skip, limit) ==
    IF source.kind = "full" THEN skip + limit + 1 ELSE source.total

\* failures of the source at one attempt of a page request
PageErrors ==
    SourceErrors \cup { [ NewError({}) EXCEPT !.status = st ] : st \in { 429, 500, 502, 504 } }

\* maxRetries: config.contentstack.retryLimit || 3
PageMaxRetries(retryLimit) == IF retryLimit = 0 THEN 3 ELSE retryLimit

\* pages an honest source needs to hand over all its records
PagesNeeded(total, pageSize) == (total + pageSize - 1) \div pageSize

\* variant that leaves skip where it is
nextSkipSame(skip, batchSize) == skip

\* skip += batchSize
nextSkip(skip, batchSize) == skip + batchSize

\* getAllEntries, lines 478-493: the loop test after a page that was not empty
hasMoreOfGetAllEntries(len, batchSize, skip, totalCount, batchCount) ==
    /\ len = batchSize /\ skip < totalCount
    /\ ~(batchCount > PageCeiling)

\* syncContentTypes, line 379
hasMoreOfSyncContentTypes(len, batchSize) == len = batchSize

PgIdle ==
    [ loop |-> "none", pc |-> "idle", source |-> [ kind |-> "none", total |-> 0 ],
      pageSize |-> 0, maxRetries |-> 0, skip |-> 0, batchCount |-> 0,
      requests |-> 0, attempt |-> 0, skips |-> << >>, collected |-> << >>,
      emptyPage |-> FALSE, failed |-> FALSE, failure |-> NewError({}), thrown |-> NewError({}) ]

\* the loop is entered: hasMore = true, skip = 0, and the first request is issued
PgInit ==
    \E loop \in { "getAllEntries", "syncContentTypes" },
       size \in 1..MaxPageSize, retryLimit \in 0..MaxRetriesBound :
    \E source \in PageSources(IF loop = "getAllEntries" THEN size ELSE SyncBatchSize) :
        /\ loop = "syncContentTypes" => size = 1
        /\ pg = [ PgIdle EXCEPT
                    !.loop = loop, !.pc = "request", !.source = source,
                    !.pageSize = IF loop = "getAllEntries" THEN size ELSE SyncBatchSize,
                    !.maxRetries = PageMaxRetries(retryLimit),
                    !.batchCount = IF loop = "getAllEntries" THEN 1 ELSE 0,
                    !.requests = 1, !.attempt = 1, !.skips = << 0 >> ]

\* the query of the pending request answers: the rest of the loop body, the loop
\* test and, when it passes, the next request
PageArrives ==
    /\ pg.pc = "request"
    /\ LET entries == PageEntries(pg.source, pg.skip, pg.pageSize)
           totalCount == PageCount(pg.source, pg.skip, pg.pageSize)
           skip == nextSkip(pg.skip, pg.pageSize)
           hasMore ==
               IF Len(entries) = 0 THEN FALSE
               ELSE IF pg.loop = "getAllEntries"
               THEN hasMoreOfGetAllEntries(Len(entries), pg.pageSize, skip, totalCount,
                                           pg.batchCount)
               ELSE hasMoreOfSyncContentTypes(Len(entries), pg.pageSize)
           after == [ pg EXCEPT !.collected = @ \o entries,
                                !.skip = IF Len(entries) = 0 THEN @ ELSE skip,
                                !.emptyPage = Len(entries) = 0 ]
       IN /\ hasMore => pg.requests < MaxRequests
          /\ pg' = IF hasMore
                   THEN [ after EXCEPT !.requests = @ + 1, !.attempt = 1,
                                       !.batchCount = IF pg.loop = "getAllEntries"
                                                      THEN @ + 1 ELSE @,
                                       !.skips = Append(@, skip) ]
                   ELSE [ after EXCEPT !.pc = "done" ]

\* the query of the pending request fails with e: the operation raises
\* `Contentstack API error for <type>: <formatted>`, withRetry decides on that
\* error, and when it gives up the loop's catch block ends the pair
PageAttemptFails ==
    /\ pg.pc = "request"
    /\ \E e \in PageErrors :
         LET wrapped == ContentstackApiError(e) IN
         pg' = IF GivesUp(pg.attempt, pg.maxRetries, wrapped)
               THEN [ pg EXCEPT !.pc = "done", !.failed = TRUE, !.failure = e,
                                !.thrown = wrapped ]
               ELSE [ pg EXCEPT !.attempt = @ + 1 ]

(***************************************************************************)
(* SpecUpsert: one call of batchUpsertContentEntries (services/supabase),  *)
(* one step per awaited upsert                                             *)
(***************************************************************************)
MaxRows == 201         \* rows handed to batchUpsertContentEntries

\* the rows syncToSupabase builds for n entries that all have their embedding
RowsOf(n) ==
    SupabaseEntries(processContentEntries(
        [ k \in 1..n |-> transformEntry(<< k >>, BlogPost, "en-us") ], {}))

\* a table that already holds a row under the id of the first entry
OldTable ==
    UpsertBatch(<< >>, << [ RowsOf(1)[1] EXCEPT !.embedding = ZeroVector ] >>)

UpIdle ==
    [ pc |-> "idle", entries |-> << >>, i |-> 0, calls |-> << >>, failed |-> 0,
      table |-> << >>, atStart |-> << >> ]

\* for (let i = 0; i < entries.length; i += batchSize)
upsertLoop(i, n) == IF i < n THEN "loop" ELSE "returned"

UpInit ==
    \E n \in 0..MaxRows, table \in { << >>, OldTable } :
        up = [ UpIdle EXCEPT !.pc = upsertLoop(0, n), !.entries = RowsOf(n),
                             !.table = table, !.atStart = table ]

\* entries.slice(i, i + batchSize)
upsertSlice(entries, i) == SubSeq(entries, i + 1, Min(Len(entries), i + UpsertBatchSize))

\* variant whose loop goes on with the next batch after an error
upsertErrorSkipsBatch(i, n) == upsertLoop(i + UpsertBatchSize, n)

\* if (error) throw error; the catch block raises it again
upsertError(i, n) == "raised"

\* the upsert of the batch at i answers without error
UpsertBatchWritten ==
    /\ up.pc = "loop"
    /\ LET batch == upsertSlice(up.entries, up.i) IN
       up' = [ up EXCEPT !.table = UpsertBatch(@, batch),
                         !.calls = Append(@, [ k \in 1..Len(batch) |-> batch[k].id ]),
                         !.i = @ + UpsertBatchSize,
                         !.pc = upsertLoop(up.i + UpsertBatchSize, Len(up.entries)) ]

\* the upsert of the batch at i answers with an error: nothing of it is written
UpsertBatchFails ==
    /\ up.pc = "loop"
    /\ LET batch == upsertSlice(up.entries, up.i) IN
       up' = [ up EXCEPT !.calls = Append(@, [ k \in 1..Len(batch) |-> batch[k].id ]),
                         !.failed = IF @ = 0 THEN Len(up.calls) + 1 ELSE @,
                         !.i = IF upsertError(up.i, Len(up.entries)) = "raised"
                               THEN @ ELSE @ + UpsertBatchSize,
                         !.pc = upsertError(up.i, Len(up.entries)) ]

(***************************************************************************)
(* SpecFetch: one call of getAllEntries (services/contentstack), one step  *)
(* per page request; a request is getEntriesByContentType with its retries *)
(***************************************************************************)
MaxFetchRecs == 3      \* records a listed content type holds per locale

\* the sources of SpecFetch: the listed types and the records of each pair
FetchSources ==
    { [ types |-> ts,
        recs |-> [ p \in Pairs |->
                     IF p[1] \in { ts[i] : i \in 1..Len(ts) } THEN n[p[1]] ELSE 0 ] ] :
        ts \in DiscoveredTypes, n \in [ ContentTypes -> 0..MaxFetchRecs ] }

FaIdle ==
    [ pc |-> "idle", source |-> [ types |-> << >>, recs |-> [ p \in Pairs |-> 0 ] ],
      locales |-> << >>, batchSize |-> 0, contentTypes |-> << >>,
      ti |-> 0, li |-> 0, skip |-> 0, batchCount |-> 0,
      log |-> << >>, allEntries |-> << >>, failedContentTypes |-> << >>,
      thrown |-> NewError({}) ]

\* getAllEntries(locales, batchSize) is called: getContentTypes is awaited
FaInit ==
    \E source \in FetchSources, locales \in { ConfiguredLocales, DefaultLocale },
       batchSize \in 1..MaxPageSize :
        fa = [ FaIdle EXCEPT !.pc = "discover", !.source = source,
                             !.locales = locales, !.batchSize = batchSize ]

\* the two for loops: the state at the head of the while loop of the pair
\* (ti, li), or the return when the content types are used up
EnterPair(f, ti, li) ==
    IF ti > Len(f.contentTypes) \/ Len(f.locales) = 0
    THEN [ f EXCEPT !.pc = "returned", !.ti = 0, !.li = 0 ]
    ELSE [ f EXCEPT !.pc = "page", !.ti = ti, !.li = li, !.skip = 0, !.batchCount = 1 ]

\* the while loop of the pair is left: next locale, or next content type
LeavePair(f) ==
    IF f.li < Len(f.locales) THEN EnterPair(f, f.ti, f.li + 1)
    ELSE EnterPair(f, f.ti + 1, 1)

\* entries.map((entry) => this.transformEntry(entry, uid, locale))
TransformPage(uids, contentType, locale) ==
    [ k \in 1..Len(uids) |-> transformEntry(<< uids[k] >>, contentType, locale) ]

\* variant that puts the page in front of what was accumulated
pushPageInFront(allEntries, transformedEntries) == transformedEntries \o allEntries

\* allEntries.push(...transformedEntries)
pushPage(allEntries, transformedEntries) == allEntries \o transformedEntries

\* getContentTypes answers
FetchDiscoveryAnswers ==
    /\ fa.pc = "discover"
    /\ fa' = EnterPair([ fa EXCEPT !.contentTypes = fa.source.types ], 1, 1)

\* getContentTypes fails after its retries: the outer catch block
FetchDiscoveryFails ==
    /\ fa.pc = "discover"
    /\ \E e \in SourceErrors :
         fa' = [ fa EXCEPT !.pc = "raised", !.thrown = ContentstackApiError(ContentstackApiError(e)) ]

\* the page request of the pair in progress answers: rest of the loop body
FetchPageArrives ==
    /\ fa.pc = "page"
    /\ LET uid == fa.contentTypes[fa.ti]
           locale == fa.locales[fa.li]
           total == fa.source.recs[<< uid, locale >>]
           entries == PageEntries([ kind |-> "honest", total |-> total ],
                                  fa.skip, fa.batchSize)
           logged == [ fa EXCEPT !.log = Append(@, [ uid |-> uid, locale |-> locale,
                                                     skip |-> fa.skip, ok |-> TRUE ]) ]
           skip == nextSkip(fa.skip, fa.batchSize)
       IN fa' = IF Len(entries) = 0 THEN LeavePair(logged)
                ELSE LET pushed ==
                            [ logged EXCEPT
                                !.allEntries = pushPage(@, TransformPage(entries, uid, locale)),
                                !.skip = skip ]
                     IN IF hasMoreOfGetAllEntries(Len(entries), fa.batchSize, skip, total,
                                                  fa.batchCount)
                        THEN [ pushed EXCEPT !.batchCount = @ + 1 ]
                        ELSE LeavePair(pushed)

\* the page request of the pair in progress fails after its retries: the
\* catch block of the while loop, lines 497-514
FetchPageFails ==
    /\ fa.pc = "page"
    /\ LET uid == fa.contentTypes[fa.ti]
           locale == fa.locales[fa.li]
       IN fa' = LeavePair([ fa EXCEPT
                              !.log = Append(@, [ uid |-> uid, locale |-> locale,
                                                  skip |-> fa.skip, ok |-> FALSE ]),
                              !.failedContentTypes = Append(@, << uid, locale >>) ])

(***************************************************************************)
(* SpecTruncate: truncateText (services/embeddings).  A text is the        *)
(* sequence of its characters; "a" stands for any character but the space. *)
(***************************************************************************)
CharsPerToken == 4     \* const maxChars = maxTokens * 4

MaxTokens == 2         \* largest config.openai.maxTokens
MaxTextLen == 10       \* characters of the longest text

Chars == { "a", " " }

RECURSIVE TextsOf(_)
TextsOf(n) ==
    IF n = 0 THEN { << >> }
    ELSE TextsOf(n - 1) \cup { Append(t, c) : t \in { u \in TextsOf(n - 1) : Len(u) = n - 1 }, c \in Chars }

Ellipsis == << ".", ".", "." >>

\* String.lastIndexOf(" "), counted from 0; -1 when there is no space
lastIndexOfSpace(text) ==
    IF \E i \in 1..Len(text) : text[i] = " "
    THEN (CHOOSE i \in 1..Len(text) :
            text[i] = " " /\ \A j \in (i + 1)..Len(text) : text[j] # " ") - 1
    ELSE -1

\* String.substring(0, end)
substring0(text, end) == SubSeq(text, 1, Min(Len(text), end))

\* truncateText(text, maxTokens), lines 269-288; lastSpaceIndex > maxChars * 0.8
\* is compared in tenths
truncateText(text, maxTokens) ==
    LET maxChars == maxTokens * CharsPerToken
        truncated == substring0(text, maxChars)
        lastSpaceIndex == lastIndexOfSpace(truncated)
    IN IF Len(text) = 0 THEN << >>
       ELSE IF Len(text) <= maxChars THEN text
       ELSE IF 10 * lastSpaceIndex > 8 * maxChars
       THEN substring0(truncated, lastSpaceIndex) \o Ellipsis
       ELSE truncated \o Ellipsis

TxIdle == [ phase |-> "idle", text |-> << >>, maxTokens |-> 0, prepared |-> << >> ]

TxInit ==
    \E text \in TextsOf(MaxTextLen), maxTokens \in 1..MaxTokens :
        tx = [ TxIdle EXCEPT !.phase = "input", !.text = text, !.maxTokens = maxTokens ]

\* generateEmbeddings, lines 69-71: this.truncateText(text || "", maxTokens)
PrepareText ==
    /\ tx.phase = "input"
    /\ tx' = [ tx EXCEPT !.phase = "prepared",
                         !.prepared = truncateText(tx.text, tx.maxTokens) ]

(***************************************************************************)
(* Specifications                                                          *)
(***************************************************************************)
\* the job and its three callers, over one source
Init == JobInit /\ UpstreamSample /\ cls = ClsIdle /\ rt = RtIdle /\ em = EmIdle /\ tr = TrIdle /\ sk = SkIdle /\ statusObj = NoStatus /\ pg = PgIdle /\ up = UpIdle /\ fa = FaIdle /\ tx = TxIdle

Next ==
    \/ Scheduler /\ UNCHANGED << cls, rt, em, tr, sk, statusObj, pg, up, fa, tx >>
    \/ StartupTimer /\ UNCHANGED << cls, rt, em, tr, sk, statusObj, pg, up, fa, tx >>
    \/ ManualTrigger /\ UNCHANGED << cls, rt, em, tr, sk, statusObj, pg, up, fa, tx >>
    \/ FetchPrimary /\ UNCHANGED << cls, rt, em, tr, sk, statusObj, pg, up, fa, tx >>
    \/ FallbackStrategy1 /\ UNCHANGED << cls, rt, em, tr, sk, statusObj, pg, up, fa, tx >>
    \/ FallbackStrategy2 /\ UNCHANGED << cls, rt, em, tr, sk, statusObj, pg, up, fa, tx >>
    \/ FallbackStrategy3 /\ UNCHANGED << cls, rt, em, tr, sk, statusObj, pg, up, fa, tx >>
    \/ SelectiveFetch /\ UNCHANGED << cls, rt, em, tr, sk, statusObj, pg, up, fa, tx >>
    \/ Embed /\ UNCHANGED << cls, rt, em, tr, sk, statusObj, pg, up, fa, tx >>
    \/ Store /\ UNCHANGED << cls, rt, em, tr, sk, statusObj, pg, up, fa, tx >>

Spec == Init /\ [][Next]_vars

\* the hourly run() over every source
InitPipeline == JobInit /\ UpstreamInit /\ cls = ClsIdle /\ rt = RtIdle /\ em = EmIdle /\ tr = TrIdle /\ sk = SkIdle /\ statusObj = NoStatus /\ pg = PgIdle /\ up = UpIdle /\ fa = FaIdle /\ tx = TxIdle

NextPipeline ==
    \/ Scheduler /\ UNCHANGED << cls, rt, em, tr, sk, statusObj, pg, up, fa, tx >>
    \/ FetchPrimary /\ UNCHANGED << cls, rt, em, tr, sk, statusObj, pg, up, fa, tx >>
    \/ FallbackStrategy1 /\ UNCHANGED << cls, rt, em, tr, sk, statusObj, pg, up, fa, tx >>
    \/ FallbackStrategy2 /\ UNCHANGED << cls, rt, em, tr, sk, statusObj, pg, up, fa, tx >>
    \/ FallbackStrategy3 /\ UNCHANGED << cls, rt, em, tr, sk, statusObj, pg, up, fa, tx >>
    \/ Embed /\ UNCHANGED << cls, rt, em, tr, sk, statusObj, pg, up, fa, tx >>
    \/ Store /\ UNCHANGED << cls, rt, em, tr, sk, statusObj, pg, up, fa, tx >>

SpecPipeline == InitPipeline /\ [][NextPipeline]_vars

\* the hourly run() over the large source
InitBulk == JobInit /\ upstream = UpstreamBulk /\ cls = ClsIdle /\ rt = RtIdle /\ em = EmIdle /\ tr = TrIdle /\ sk = SkIdle /\ statusObj = NoStatus /\ pg = PgIdle /\ up = UpIdle /\ fa = FaIdle /\ tx = TxIdle

SpecBulk == InitBulk /\ [][NextPipeline]_vars

InitClassify == ClsInit /\ JobIdle /\ rt = RtIdle /\ em = EmIdle /\ tr = TrIdle /\ sk = SkIdle /\ statusObj = NoStatus /\ pg = PgIdle /\ up = UpIdle /\ fa = FaIdle /\ tx = TxIdle

NextClassify ==
    \/ Categorize /\ UNCHANGED << rt, em, tr, sk, statusObj, pg, up, fa, tx >> /\ UNCHANGED jobVars
    \/ DecideRetry /\ UNCHANGED << rt, em, tr, sk, statusObj, pg, up, fa, tx >> /\ UNCHANGED jobVars

SpecClassify == InitClassify /\ [][NextClassify]_vars

InitRetry == RtInit /\ JobIdle /\ cls = ClsIdle /\ em = EmIdle /\ tr = TrIdle /\ sk = SkIdle /\ statusObj = NoStatus /\ pg = PgIdle /\ up = UpIdle /\ fa = FaIdle /\ tx = TxIdle

NextRetry ==
    \/ OperationSucceeds /\ UNCHANGED << cls, em, tr, sk, statusObj, pg, up, fa, tx >> /\ UNCHANGED jobVars
    \/ OperationFails /\ UNCHANGED << cls, em, tr, sk, statusObj, pg, up, fa, tx >> /\ UNCHANGED jobVars
    \/ SleepThenNextAttempt /\ UNCHANGED << cls, em, tr, sk, statusObj, pg, up, fa, tx >> /\ UNCHANGED jobVars

SpecRetry == InitRetry /\ [][NextRetry]_vars

InitEmbed == EmInit /\ JobIdle /\ cls = ClsIdle /\ rt = RtIdle /\ tr = TrIdle /\ sk = SkIdle /\ statusObj = NoStatus /\ pg = PgIdle /\ up = UpIdle /\ fa = FaIdle /\ tx = TxIdle

NextEmbed ==
    \/ GenerateEmbeddings /\ UNCHANGED << cls, rt, tr, sk, statusObj, pg, up, fa, tx >> /\ UNCHANGED jobVars
    \/ CombineAndFilter /\ UNCHANGED << cls, rt, tr, sk, statusObj, pg, up, fa, tx >> /\ UNCHANGED jobVars

SpecEmbed == InitEmbed /\ [][NextEmbed]_vars

InitTransform == TrInit /\ JobIdle /\ cls = ClsIdle /\ rt = RtIdle /\ em = EmIdle /\ sk = SkIdle /\ statusObj = NoStatus /\ pg = PgIdle /\ up = UpIdle /\ fa = FaIdle /\ tx = TxIdle

NextTransform == Transform /\ UNCHANGED << cls, rt, em, sk, statusObj, pg, up, fa, tx >> /\ UNCHANGED jobVars

SpecTransform == InitTransform /\ [][NextTransform]_vars

InitSink == SkInit /\ JobIdle /\ cls = ClsIdle /\ rt = RtIdle /\ em = EmIdle /\ tr = TrIdle /\ statusObj = NoStatus /\ pg = PgIdle /\ up = UpIdle /\ fa = FaIdle /\ tx = TxIdle

NextSink ==
    \/ SinkEmbed /\ UNCHANGED << cls, rt, em, tr, statusObj, pg, up, fa, tx >> /\ UNCHANGED jobVars
    \/ SinkStore /\ UNCHANGED << cls, rt, em, tr, statusObj, pg, up, fa, tx >> /\ UNCHANGED jobVars

SpecSink == InitSink /\ [][NextSink]_vars

\* the hourly run() over one source, and a caller of getStatus()
InitStatus == JobInit /\ UpstreamSample /\ cls = ClsIdle /\ rt = RtIdle /\ em = EmIdle /\ tr = TrIdle /\ sk = SkIdle /\ statusObj = NoStatus /\ pg = PgIdle /\ up = UpIdle /\ fa = FaIdle /\ tx = TxIdle

NextStatus ==
    \/ Scheduler /\ UNCHANGED << cls, rt, em, tr, sk, statusObj, pg, up, fa, tx >>
    \/ FetchPrimary /\ UNCHANGED << cls, rt, em, tr, sk, statusObj, pg, up, fa, tx >>
    \/ FallbackStrategy1 /\ UNCHANGED << cls, rt, em, tr, sk, statusObj, pg, up, fa, tx >>
    \/ FallbackStrategy2 /\ UNCHANGED << cls, rt, em, tr, sk, statusObj, pg, up, fa, tx >>
    \/ FallbackStrategy3 /\ UNCHANGED << cls, rt, em, tr, sk, statusObj, pg, up, fa, tx >>
    \/ Embed /\ UNCHANGED << cls, rt, em, tr, sk, statusObj, pg, up, fa, tx >>
    \/ Store /\ UNCHANGED << cls, rt, em, tr, sk, statusObj, pg, up, fa, tx >>
    \/ GetStatus /\ UNCHANGED << cls, rt, em, tr, sk, pg, up, fa, tx >>
    \/ CallerModifies /\ UNCHANGED << cls, rt, em, tr, sk, pg, up, fa, tx >>

SpecStatus == InitStatus /\ [][NextStatus]_vars

\* the page loop of one pair
InitPages == PgInit /\ JobIdle /\ cls = ClsIdle /\ rt = RtIdle /\ em = EmIdle /\ tr = TrIdle /\ sk = SkIdle /\ statusObj = NoStatus /\ up = UpIdle /\ fa = FaIdle /\ tx = TxIdle

NextPages ==
    \/ PageArrives /\ UNCHANGED << cls, rt, em, tr, sk, statusObj, up, fa, tx >> /\ UNCHANGED jobVars
    \/ PageAttemptFails /\ UNCHANGED << cls, rt, em, tr, sk, statusObj, up, fa, tx >> /\ UNCHANGED jobVars

SpecPages == InitPages /\ [][NextPages]_vars

\* one call of batchUpsertContentEntries
InitUpsert == UpInit /\ JobIdle /\ cls = ClsIdle /\ rt = RtIdle /\ em = EmIdle /\ tr = TrIdle /\ sk = SkIdle /\ statusObj = NoStatus /\ pg = PgIdle /\ fa = FaIdle /\ tx = TxIdle

NextUpsert ==
    \/ UpsertBatchWritten /\ UNCHANGED << cls, rt, em, tr, sk, statusObj, pg, fa, tx >> /\ UNCHANGED jobVars
    \/ UpsertBatchFails /\ UNCHANGED << cls, rt, em, tr, sk, statusObj, pg, fa, tx >> /\ UNCHANGED jobVars

SpecUpsert == InitUpsert /\ [][NextUpsert]_vars

\* one call of getAllEntries
InitFetch == FaInit /\ JobIdle /\ cls = ClsIdle /\ rt = RtIdle /\ em = EmIdle /\ tr = TrIdle /\ sk = SkIdle /\ statusObj = NoStatus /\ pg = PgIdle /\ up = UpIdle /\ tx = TxIdle

NextFetch ==
    \/ FetchDiscoveryAnswers /\ UNCHANGED << cls, rt, em, tr, sk, statusObj, pg, up, tx >> /\ UNCHANGED jobVars
    \/ FetchDiscoveryFails /\ UNCHANGED << cls, rt, em, tr, sk, statusObj, pg, up, tx >> /\ UNCHANGED jobVars
    \/ FetchPageArrives /\ UNCHANGED << cls, rt, em, tr, sk, statusObj, pg, up, tx >> /\ UNCHANGED jobVars
    \/ FetchPageFails /\ UNCHANGED << cls, rt, em, tr, sk, statusObj, pg, up, tx >> /\ UNCHANGED jobVars

SpecFetch == InitFetch /\ [][NextFetch]_vars

\* one text prepared for the embedding provider
InitTruncate == TxInit /\ JobIdle /\ cls = ClsIdle /\ rt = RtIdle /\ em = EmIdle /\ tr = TrIdle /\ sk = SkIdle /\ statusObj = NoStatus /\ pg = PgIdle /\ up = UpIdle /\ fa = FaIdle

NextTruncate == PrepareText /\ UNCHANGED << cls, rt, em, tr, sk, statusObj, pg, up, fa >> /\ UNCHANGED jobVars

SpecTruncate == InitTruncate /\ [][NextTruncate]_vars

\* run() by the scheduler, syncContentTypes() and getStatus() by callers of the
\* job, over one source
InitCalls == JobInit /\ UpstreamSample /\ cls = ClsIdle /\ rt = RtIdle /\ em = EmIdle /\ tr = TrIdle /\ sk = SkIdle /\ statusObj = NoStatus /\ pg = PgIdle /\ up = UpIdle /\ fa = FaIdle /\ tx = TxIdle

NextCalls ==
    \/ Scheduler /\ UNCHANGED << cls, rt, em, tr, sk, statusObj, pg, up, fa, tx >>
    \/ DirectSync /\ UNCHANGED << cls, rt, em, tr, sk, statusObj, pg, up, fa, tx >>
    \/ FetchPrimary /\ UNCHANGED << cls, rt, em, tr, sk, statusObj, pg, up, fa, tx >>
    \/ FallbackStrategy1 /\ UNCHANGED << cls, rt, em, tr, sk, statusObj, pg, up, fa, tx >>
    \/ FallbackStrategy2 /\ UNCHANGED << cls, rt, em, tr, sk, statusObj, pg, up, fa, tx >>
    \/ FallbackStrategy3 /\ UNCHANGED << cls, rt, em, tr, sk, statusObj, pg, up, fa, tx >>
    \/ SelectiveFetch /\ UNCHANGED << cls, rt, em, tr, sk, statusObj, pg, up, fa, tx >>
    \/ Embed /\ UNCHANGED << cls, rt, em, tr, sk, statusObj, pg, up, fa, tx >>
    \/ Store /\ UNCHANGED << cls, rt, em, tr, sk, statusObj, pg, up, fa, tx >>
    \/ GetStatus /\ UNCHANGED << cls, rt, em, tr, sk, pg, up, fa, tx >>

SpecCalls == InitCalls /\ [][NextCalls]_vars

(***************************************************************************)
(* Properties of the concurrency guard (Spec)                              *)
(***************************************************************************)
Active == DOMAIN flights

\* some execution leaves the set of executions in flight
Finishes == \E x \in Active : x \notin DOMAIN flights' /\ last'.id = x

\* C1: run() called while an execution is in flight returns without raising
\* and changes nothing: totalRuns, lastRunStatus, lastError and lastSyncTime
\* keep their values, no fetch, embedding or store call is started, and
\* isRunning stays true until the execution in flight finishes.
C1_RunWhileRunningIsNoOp ==
    [][ /\ (isRunning /\ event'.op = "run") =>
              /\ event'.result = "skipped"
              /\ isRunning'
              /\ UNCHANGED << syncStats, lastSyncTime, flights, store, admitted, last >>
        /\ (isRunning /\ ~isRunning') => Finishes ]_vars

\* the scheduler called run() while a run was at its store phase
C1_Witness ==
    /\ event = [ via |-> "cron", op |-> "run", result |-> "skipped" ]
    /\ isRunning
    /\ \E x \in Active : flights[x].op = "run" /\ flights[x].pc = "store"
    /\ syncStats.totalRuns = 1

\* C2: at most one pipeline execution is active at any moment, whatever the
\* interleaving of the scheduler, the startup timer and manual triggers
\* (forced ones included).
C2_AtMostOneExecution == Cardinality(Active) <= 1

\* a forced manual trigger got past triggerManualSync and was stopped by the
\* guard of the entry point it called
C2_Witness ==
    /\ Cardinality(Active) = 1
    /\ event.via = "trigger"
    /\ event.op \in { "run", "syncContentTypes" }
    /\ event.result \in { "skipped", "raised" }
    /\ admitted = MaxExecutions

\* C3: syncContentTypes() called while an execution is in flight raises at
\* once, starts no fetch, embedding or store call and leaves isRunning true.
C3_SyncWhileRunningRaises ==
    [][ (isRunning /\ event'.op = "syncContentTypes") =>
            /\ event'.result = "raised"
            /\ isRunning'
            /\ UNCHANGED << syncStats, lastSyncTime, flights, store, admitted, last >> ]_vars

\* a targeted sync was refused while a run was fetching
C3_Witness ==
    /\ event.op = "syncContentTypes"
    /\ event.result = "raised"
    /\ isRunning
    /\ \E x \in Active : flights[x].op = "run" /\ flights[x].pc \in { "fetch", "fb1", "fb2", "fb3" }

\* C4: an admitted run() or syncContentTypes() ends with isRunning = false
\* whichever way it exits, so that the guards of both entry points are open
\* again once no execution is in flight.
C4_GuardReleasedOnEveryExit ==
    /\ (Active = {}) => (~isRunning /\ ~runGuard /\ ~syncGuard)
    /\ (last.pc = "done") =>
          /\ last.term \in { "success", "no_content", "no_embeddings", "error",
                             "completed", "no_entries" }
          /\ (last.outcome = "raised") <=> (last.term = "error")

\* a run ended in error, raised, and the guard is released
C4_Witness ==
    /\ last.pc = "done"
    /\ last.op = "run"
    /\ last.term = "error"
    /\ last.outcome = "raised"
    /\ Active = {}
    /\ ~isRunning

(***************************************************************************)
(* Properties of one run() (SpecPipeline)                                  *)
(***************************************************************************)
RunEnded == last.pc = "done" /\ last.op = "run"

NoRecords == \A p \in RelevantPairs(upstream.types, ConfiguredLocales) : upstream.recs[p] = 0

\* C5: when the source lists no content type, or every (content type, locale)
\* pair answers with zero records, run() ends with lastRunStatus = no_content,
\* does not raise, calls neither the embedding service nor the store, and
\* leaves successfulRuns as it was.
C5_EmptySourceIsNoContent ==
    (RunEnded /\ last.primary = "array" /\ last.failedPairs = {} /\ NoRecords) =>
        /\ last.term = "no_content"
        /\ last.outcome = "returned"
        /\ syncStats.lastRunStatus = "no_content"
        /\ ~last.didEmbed
        /\ ~last.didStore
        /\ store = last.storeAtStart
        /\ syncStats.successfulRuns = last.statsAtStart.successfulRuns

\* a run over a source that lists two content types without entries
C5_Witness ==
    /\ RunEnded
    /\ Len(upstream.types) = 2
    /\ NoRecords
    /\ last.primary = "array"
    /\ last.failedPairs = {}
    /\ syncStats.lastRunStatus = "no_content"

\* C6 as stated: when the primary fetch answers with something that is no
\* array, the fallback ladder is entered, and if none of its strategies yields
\* records (it answers empty or invalid, or fails) run() ends in no_content
\* and does not raise.
C6_LadderNeverRaises ==
    (RunEnded /\ last.primary = "not_array") =>
        /\ last.ladders >= 1
        /\ (\A i \in 1..Len(last.strategies) : last.strategies[i] # "yielded") =>
              (last.term = "no_content" /\ last.outcome = "returned")

\* strategy 1 failed by raising and the run ended in error
C6_Witness ==
    /\ RunEnded
    /\ last.primary = "not_array"
    /\ last.strategies = << "threw" >>
    /\ last.term = "error"
    /\ last.failedAt = "fetch"

\* C7: a second successful run() right after a successful run() that wrote the
\* same ids leaves the store with the same set of ids and the same number of
\* rows: each row overwrites the row with its id.
C7_SecondRunKeepsRows ==
    (/\ RunEnded
     /\ last.term = "success"
     /\ last.prevTerm = "success"
     /\ Ids(SupabaseEntries(last.processed)) = last.prevIds) =>
        /\ DOMAIN store = DOMAIN last.storeAtStart
        /\ RowCount(store) = RowCount(last.storeAtStart)
        /\ \A i \in DOMAIN store : Len(store[i]) = 1

\* two successful runs in a row wrote the same rows of two content types
C7_Witness ==
    /\ RunEnded
    /\ last.term = "success"
    /\ last.prevTerm = "success"
    /\ Ids(SupabaseEntries(last.processed)) = last.prevIds
    /\ Cardinality(last.prevIds) >= 3
    /\ syncStats.successfulRuns = 2

\* C8: when some (content type, locale) pairs fail after their retries and
\* another pair succeeds, the fetch does not abort: the failing pairs are
\* skipped, the other pairs are fetched, and the run goes on with exactly the
\* records of the pairs that succeeded; it does not end in error unless the
\* embedding or the store phase fails.
C8_PartialFailureContained ==
    (/\ RunEnded
     /\ last.failedPairs # {}
     /\ RelevantPairs(upstream.types, ConfiguredLocales) \ last.failedPairs # {}) =>
        /\ last.primary = "array"
        /\ last.ladders = 0
        /\ last.entries = CollectEntries(upstream.types, ConfiguredLocales, last.failedPairs)
        /\ \A p \in RelevantPairs(upstream.types, ConfiguredLocales) \ last.failedPairs :
              SeqSet(PairEntries(upstream.recs, p[1], p[2])) \subseteq SeqSet(last.entries)
        /\ \A i \in 1..Len(last.entries) :
              << last.entries[i].content_type, last.entries[i].locale >> \notin last.failedPairs
        /\ (last.term = "error") => (last.failedAt \in { "embed", "store" })

\* one of four pairs failed and the run succeeded with the entries of the other three
C8_Witness ==
    /\ RunEnded
    /\ Cardinality(last.failedPairs) = 1
    /\ Len(last.entries) = 3
    /\ last.term = "success"
    /\ Cardinality(DOMAIN store) = 3

(***************************************************************************)
(* Properties of withRetry and isRetryableError                            *)
(***************************************************************************)
AllRetryable(fails) == \A i \in 1..Len(fails) : fails[i]

C11_EmbedKeepsSucceededInOrder ==
    (em.phase = "done") =>
        LET n == Len(em.entries)
            kept == { k \in 1..n : BatchOf(k, 100) \notin em.failedBatches }
        IN /\ { em.processed[j].uid[1] : j \in 1..Len(em.processed) } = kept
           /\ Len(em.processed) = Cardinality(kept)
           /\ \A j \in 1..Len(em.processed) - 1 :
                 em.processed[j].uid[1] < em.processed[j + 1].uid[1]
           /\ \A j \in 1..Len(em.processed) :
                 /\ em.processed[j].embedding = Vector(em.processed[j].id)
                 /\ em.processed[j].embedding # NullEmbedding
                 /\ em.processed[j].id = em.entries[em.processed[j].uid[1]].id
           /\ (em.failedBatches # {}) => Len(em.processed) < n

\* the middle batch of three failed: the first and the last batch are returned
C11_Witness ==
    /\ em.phase = "done"
    /\ Len(em.entries) = 201
    /\ em.failedBatches = { 2 }
    /\ Len(em.processed) = 101
    /\ em.processed[101].uid = << 201 >>

(***************************************************************************)
(* Properties of transformEntry (SpecTransform)                            *)
(***************************************************************************)
\* C12: the id depends only on (content type, uid, locale): the same raw entry
\* with the same content type and locale gets the same id every time, and with
\* another locale it gets another id.
C12_IdDeterminedByTriple ==
    (tr.phase = "done") =>
        /\ tr.idAgain = tr.idA
        /\ (tr.a = tr.b) => (tr.idA = tr.idB)
        /\ (/\ tr.a.contentType = tr.b.contentType
            /\ tr.a.uid = tr.b.uid
            /\ tr.a.locale # tr.b.locale) => (tr.idA # tr.idB)

\* blog_post entry post_x in en-us and in fr-fr
C12_Witness ==
    /\ tr.phase = "done"
    /\ tr.a = [ contentType |-> BlogPost, uid |-> << "post", "x" >>, locale |-> "en-us" ]
    /\ tr.b = [ contentType |-> BlogPost, uid |-> << "post", "x" >>, locale |-> "fr-fr" ]
    /\ tr.idA = << "blog", "post", "post", "x", "en-us" >>
    /\ tr.idB # tr.idA

C14_EscapedExceptionIsRecordedAndRaised ==
    RunEnded =>
        /\ (last.failedAt # "none") <=> (last.term = "error")
        /\ (last.failedAt # "none") =>
              /\ last.outcome = "raised"
              /\ syncStats.lastRunStatus = "error"
              /\ syncStats.lastError.message = last.err
              /\ syncStats.lastError.category = categorizeError(NewError(last.err))
              /\ \A p \in last.cause : Includes(last.err, p)
        /\ (last.failedAt = "none") => (last.outcome = "returned")

\* the store refused a batch: the run raised a connection error
C14_Witness ==
    /\ RunEnded
    /\ last.failedAt = "store"
    /\ last.cause = { "connection" }
    /\ last.outcome = "raised"
    /\ syncStats.lastError = [ message |-> { "connection" }, category |-> "NETWORK" ]

\* the three conditions of a successful run, read off the execution that ended
FetchedSome(rec) == Len(rec.entries) >= 1

EmbeddedSome(rec) == Len(rec.processed) >= 1

UpsertCompleted(rec) == rec.didStore /\ rec.failedAt = "none"

\* C15: a run() ends in success, with lastSyncTime set anew and successfulRuns
\* one higher, exactly when the fetch returned at least one record, at least
\* one record came out of the embedding phase and the upsert ended without
\* error; no other step of the job changes successfulRuns or lastSyncTime.
C15_SuccessIffAllThreePhases ==
    [][ IF Finishes /\ last'.op = "run"
        THEN /\ (last'.term = "success") <=>
                   (FetchedSome(last') /\ EmbeddedSome(last') /\ UpsertCompleted(last'))
             /\ (last'.term = "success") =>
                   /\ syncStats'.successfulRuns = syncStats.successfulRuns + 1
                   /\ syncStats'.lastRunStatus = "success"
                   /\ lastSyncTime' > lastSyncTime
             /\ (last'.term # "success") =>
                   /\ syncStats'.successfulRuns = syncStats.successfulRuns
                   /\ lastSyncTime' = lastSyncTime
        ELSE /\ syncStats'.successfulRuns = syncStats.successfulRuns
             /\ lastSyncTime' = lastSyncTime ]_vars

\* a second successful run: the counter is 2 and the time of the sync moved on
C15_Witness ==
    /\ RunEnded
    /\ last.term = "success"
    /\ FetchedSome(last) /\ EmbeddedSome(last) /\ UpsertCompleted(last)
    /\ syncStats.successfulRuns = 2
    /\ lastSyncTime = 2

\* every embedding batch of the execution failed
NoneSurvived(rec) ==
    /\ rec.didEmbed
    /\ rec.failedBatches = 1..NumBatches(Len(rec.entries), EmbedBatchSize)

\* C16: when the fetch returned at least one record and no record survives the
\* embedding phase, run() ends with lastRunStatus = no_embeddings, does not
\* raise, writes nothing to the store and leaves successfulRuns as it was.
C16_NoSurvivorIsNoEmbeddings ==
    (RunEnded /\ FetchedSome(last) /\ NoneSurvived(last)) =>
        /\ last.term = "no_embeddings"
        /\ syncStats.lastRunStatus = "no_embeddings"
        /\ last.outcome = "returned"
        /\ ~last.didStore
        /\ store = last.storeAtStart
        /\ syncStats.successfulRuns = last.statsAtStart.successfulRuns

\* after one successful run, a run whose only embedding batch failed
C16_Witness ==
    /\ RunEnded
    /\ FetchedSome(last) /\ NoneSurvived(last)
    /\ last.term = "no_embeddings"
    /\ syncStats.successfulRuns = 1
    /\ syncStats.totalRuns = 2
    /\ RowCount(store) >= 1

\* the execution x before and after a step
After(x) == IF x \in DOMAIN flights' THEN flights'[x] ELSE last'

EmbedCall(x) == After(x).embedDone > flights[x].embedDone

FetchCall(x) ==
    \/ After(x).primary # flights[x].primary
    \/ After(x).strategies # flights[x].strategies
    \/ After(x).ladders # flights[x].ladders
    \/ After(x).entries # flights[x].entries

StoreWrite(x) == After(x).didStore /\ ~flights[x].didStore

\* C17: the phases of an execution follow each other in time: no embedding
\* request is made before the fetch, fallback fetches included, has ended, and
\* no row is written to the store before the last embedding batch has ended.
C17_PhasesInOrder ==
    [][ /\ \A x \in Active :
              /\ EmbedCall(x) =>
                    /\ flights[x].pc = "embed"
                    /\ ~FetchCall(x)
                    /\ ~flights[x].didStore
              /\ FetchCall(x) =>
                    /\ ~flights[x].didEmbed /\ ~After(x).didEmbed
                    /\ ~After(x).didStore
              /\ StoreWrite(x) =>
                    /\ flights[x].pc = "store"
                    /\ ~FetchCall(x) /\ ~EmbedCall(x)
                    /\ flights[x].embedDone =
                          NumBatches(Len(flights[x].entries), EmbedBatchSize)
        /\ store' # store => \E x \in Active : StoreWrite(x) ]_vars

\* a run over the large source: a fallback fetch, two embedding batches of
\* which the first failed, then the store
C17_Witness ==
    /\ RunEnded
    /\ last.ladders >= 1
    /\ Len(last.entries) > EmbedBatchSize
    /\ last.embedDone = 2
    /\ last.failedBatches = { 1 }
    /\ last.didStore
    /\ last.term = "success"

(***************************************************************************)
(* Properties of the rows handed to the store (SpecSink)                   *)
(***************************************************************************)
\* the fetched entry a row was built from
Origins(row) == { j \in 1..Len(sk.entries) : sk.entries[j].id = row.id }

\* C18: every row handed to the store by run() or syncContentTypes() comes
\* from a fetched entry that has id, title, content type and locale and whose
\* embedding batch succeeded, and carries that entry's vector; an entry that
\* lacks one of the fields, or whose embedding failed, gives no row.
C18_RowsComeFromCompleteRecords ==
    (sk.phase = "stored") =>
        /\ \A i \in 1..Len(sk.rows) :
              \E j \in Origins(sk.rows[i]) :
                 /\ ValidEntry(sk.entries[j])
                 /\ BatchOf(j, EmbedBatchSize) \notin sk.failedBatches
                 /\ sk.rows[i].embedding = Vector(EmbeddingText(sk.entries[j]))
        /\ \A j \in 1..Len(sk.entries) :
              (~ValidEntry(sk.entries[j]) \/ BatchOf(j, EmbedBatchSize) \in sk.failedBatches)
                 => sk.entries[j].id \notin Ids(sk.rows)

\* CONTENTSTACK_LOCALES=en-us, : the sixth entry has the locale "" and is
\* written as a row of locale en-us
C18_Witness ==
    /\ sk.phase = "stored"
    /\ sk.locales = << "en-us", "" >>
    /\ Len(sk.entries) = 2 * SampleSize
    /\ sk.entries[SampleSize + 1].locale = ""
    /\ sk.rows[SampleSize + 1].id = sk.entries[SampleSize + 1].id
    /\ sk.rows[SampleSize + 1].locale = "en-us"

(***************************************************************************)
(* Properties of getStatus() (SpecStatus)                                  *)
(***************************************************************************)
\* C19: getStatus() changes no field of the job, in whatever state it is
\* called; what the caller reads in the returned object stays what it was when
\* the job runs on; and a write of the caller into the returned object changes
\* no field of the job.
C19_StatusIsIndependentSnapshot ==
    [][ /\ (event'.op = "getStatus") =>
              UNCHANGED << isRunning, lastSyncTime, syncStats, flights, store, last >>
        /\ (statusObj.returned /\ event'.via # "caller") =>
              Seen(statusObj.value)' = Seen(statusObj.value)
        /\ (event'.op = "modify") =>
              UNCHANGED << isRunning, lastSyncTime, syncStats >> ]_vars

\* the caller holds a status taken before the first run and reads
\* stats.totalRuns = 1 in it once the run is admitted
C19_Witness ==
    /\ statusObj.returned
    /\ statusObj.value.lastSyncTime = 0
    /\ ~statusObj.value.isRunning
    /\ isRunning
    /\ event.via = "cron"
    /\ Seen(statusObj.value).stats.totalRuns = 1

\* C20: after an admitted run() has ended, the object getStatus() returns has
\* the attributes isRunning, lastSyncTime and stats, and an attribute
\* lastRunStatus equal to the terminal state of that run.
C20_StatusHasLastRunStatus ==
    (event.op = "getStatus" /\ RunEnded /\ Active = {}) =>
        /\ { "isRunning", "lastSyncTime", "stats" } \subseteq DOMAIN statusObj.value
        /\ Attr(statusObj.value, "lastRunStatus") = last.term

\* getStatus() after a successful run: the state is under stats only
C20_Witness ==
    /\ event.op = "getStatus"
    /\ RunEnded /\ Active = {}
    /\ last.term = "success"
    /\ Seen(statusObj.value).stats.lastRunStatus = "success"
    /\ Attr(statusObj.value, "lastRunStatus") = "undefined"

(***************************************************************************)
(* Properties of the fetch and its fallback ladder (SpecPipeline)          *)
(***************************************************************************)
\* the executions: those in flight and the one that ended last
Executions == { flights[x] : x \in Active } \cup { last }

\* the categories and patterns of isRecoverableError, on the caught error
CaughtRecoverable(rec) ==
    \/ categorizeError(rec.caught) \in { "NETWORK", "TIMEOUT", "RATE_LIMIT", "SERVER_ERROR" }
    \/ IncludesAny(rec.caught.message, RecoverablePatterns)

\* C21 as stated: a run enters the fallback ladder at most once, only after a
\* primary fetch result that failed validation, and never because of an
\* exception.
C21_LadderOnceOnInvalidOnly ==
    \A rec \in Executions :
       /\ rec.ladders <= 1
       /\ rec.ladders >= 1 => (rec.primaryValid = "invalid" /\ ~rec.fromCatch)

\* C21, amended: a run enters the ladder at most twice and never after a valid
\* primary result; it enters it with the configured locales after a primary
\* result that failed validation, and with the default locale after a
\* recoverable exception of the primary fetch or of that first ladder; an
\* exception that is not recoverable never leads into the ladder.
C21_LadderOnInvalidOrRecoverable ==
    \A rec \in Executions :
       /\ rec.ladders <= 2
       /\ rec.primaryValid = "valid" => rec.ladders = 0
       /\ (rec.ladders >= 1 /\ ~rec.fromCatch) =>
             /\ rec.ladders = 1
             /\ rec.primaryValid = "invalid"
             /\ rec.ladderLocales = ConfiguredLocales
       /\ rec.fromCatch =>
             /\ CaughtRecoverable(rec)
             /\ rec.ladderLocales = DefaultLocale
             /\ rec.ladders = (IF rec.primary = "throw" THEN 1 ELSE 2)
       /\ (rec.pc = "done" /\ rec.failedAt = "fetch" /\ ~CaughtRecoverable(rec)) =>
             ~rec.fromCatch

\* the primary result was no array, strategy 1 of the ladder raised a timeout,
\* and the catch block entered the ladder a second time
C21_Witness ==
    \E x \in Active :
       /\ flights[x].primaryValid = "invalid"
       /\ flights[x].ladders = 2
       /\ flights[x].fromCatch
       /\ flights[x].caught.message = { "timeout" }
       /\ flights[x].pc = "fb1"

\* the ladder of rec is over: the execution has left its three strategies
LadderOver(rec) == rec.ladders >= 1 /\ rec.pc \notin { "fb1", "fb2", "fb3" }

\* strategy k of the ladder failed to yield a non-empty valid result
FailedToYield(rec, k) == k <= Len(rec.strategies) /\ rec.strategies[k] # "yielded"

\* strategy k of the ladder has been called
Attempted(rec, k) ==
    \/ Len(rec.strategies) >= k
    \/ rec.pc = << "fb1", "fb2", "fb3" >>[k]

\* C22: the ladder attempts its strategies in the order 1, 2, 3; strategy k+1
\* is attempted exactly when each of the strategies 1..k failed to yield a
\* non-empty valid result, and the first strategy that yields ends the ladder.
C22_NextStrategyIffAllFailed ==
    \A rec \in Executions :
       /\ rec.pc = "fb1" => Len(rec.strategies) = 0
       /\ rec.pc = "fb2" => Len(rec.strategies) = 1
       /\ rec.pc = "fb3" => Len(rec.strategies) = 2
       /\ Len(rec.strategies) <= 3
       /\ \A k \in 1..Len(rec.strategies) :
             rec.strategies[k] = "yielded" =>
                /\ k = Len(rec.strategies)
                /\ Len(rec.entries) > 0
                /\ LadderOver(rec)
       /\ \A k \in 1..2 :
             rec.ladders >= 1 =>
                (Attempted(rec, k + 1) <=> \A j \in 1..k : FailedToYield(rec, j))

\* strategy 1 answered with no entries and strategy 2 raised: strategy 3 was
\* never attempted
C22_Witness ==
    /\ RunEnded
    /\ last.ladders = 1
    /\ last.strategies = << "empty", "threw" >>
    /\ last.term = "error"

AuthCategories == { "AUTHENTICATION", "AUTHORIZATION" }

\* the primary fetch of the finished run met an authentication or authorization
\* failure of the source: at category discovery, or at a page fetch of a pair
AuthFailureAtDiscovery(rec) ==
    rec.primary = "throw" /\ categorizeError(rec.caught) \in AuthCategories

AuthFailureAtPair(rec) == rec.pairFailure \in AuthCategories

\* C23: a run whose fetch met an AUTHENTICATION or AUTHORIZATION failure of the
\* source, at category discovery or at a page fetch of some pair, ends with
\* status error and the failure recorded: the failure is never absorbed.
C23_AuthFailureEndsRunInError ==
    (last.pc = "done" /\ last.op = "run"
       /\ (AuthFailureAtDiscovery(last) \/ AuthFailureAtPair(last)))
    => /\ last.term = "error"
       /\ last.outcome = "raised"
       /\ syncStats.lastRunStatus = "error"

\* a run ended in success although the page fetch of one of its pairs was
\* refused with 401: the pair was skipped and the rest was synchronised
C23_Witness ==
    /\ last.pc = "done" /\ last.op = "run"
    /\ AuthFailureAtPair(last)
    /\ last.term = "success"
    /\ syncStats.lastRunStatus = "success"

\* the part that holds: a 401 at category discovery ends the run in error
C23_DiscoveryAuthFailureEndsInError ==
    (last.pc = "done" /\ last.op = "run" /\ AuthFailureAtDiscovery(last))
    => last.term = "error" /\ last.outcome = "raised"

\* the primary fetch delivered nothing because the source failed: discovery
\* failed and no fallback strategy yielded, or discovery answered and the page
\* fetch of every (content type, locale) pair failed after its retries
DiscoveryFailed(rec) ==
    rec.primary = "throw" /\ \A i \in 1..Len(rec.strategies) : rec.strategies[i] # "yielded"

EveryPairFailed(rec) ==
    /\ rec.primary = "array"
    /\ RelevantPairs(upstream.types, ConfiguredLocales) # {}
    /\ rec.failedPairs = RelevantPairs(upstream.types, ConfiguredLocales)

\* C24: when the fetch fails entirely (category discovery fails, or every pair
\* fails all its retries) the run ends with status error and the failure is
\* raised to the caller.
C24_TotalFetchFailureEndsRunInError ==
    (last.pc = "done" /\ last.op = "run" /\ (DiscoveryFailed(last) \/ EveryPairFailed(last)))
    => /\ last.term = "error"
       /\ last.outcome = "raised"
       /\ syncStats.lastRunStatus = "error"

\* every pair of the source failed and the run returned with no_content
C24_Witness ==
    /\ last.pc = "done" /\ last.op = "run"
    /\ EveryPairFailed(last)
    /\ last.term = "no_content"
    /\ last.outcome = "returned"
    /\ syncStats.lastRunStatus = "no_content"

\* the part that holds: a discovery failure that isRecoverableError rejects
C24_UnrecoverableDiscoveryFailureEndsInError ==
    (last.pc = "done" /\ last.op = "run" /\ last.primary = "throw"
       /\ ~isRecoverableError(last.caught))
    => last.term = "error" /\ last.outcome = "raised" /\ last.ladders = 0

(***************************************************************************)
(* Properties of the page loops (SpecPages)                                *)
(***************************************************************************)
\* C25: for one (category, locale) pair getAllEntries issues at most 100 page
\* requests, also against a source that returns a full page each time and
\* reports a total count beyond every skip.
C25_AtMostCeilingPageRequests ==
    pg.loop = "getAllEntries" => pg.requests <= PageCeiling

\* the loop of getAllEntries has ended after 101 page requests to a source
\* that always returns a full page
C25_Witness ==
    /\ pg.loop = "getAllEntries" /\ pg.source.kind = "full"
    /\ pg.pc = "done" /\ ~pg.failed
    /\ pg.requests = PageCeiling + 1
    /\ Len(pg.collected) = (PageCeiling + 1) * pg.pageSize

\* the part that holds: never more than one request beyond the ceiling
C25_AtMostOneBeyondCeiling ==
    pg.loop = "getAllEntries" => pg.requests <= PageCeiling + 1

\* C26: the fetch of syncContentTypes() is bounded the same way: at most 100
\* page requests per pair, so that it terminates and the guard is released.
C26_SyncAtMostCeilingPageRequests ==
    pg.loop = "syncContentTypes" => pg.requests <= PageCeiling

\* the loop of syncContentTypes is past the point where the loop of
\* getAllEntries stops, and its next request to the always-full source is pending
C26_Witness ==
    /\ pg.loop = "syncContentTypes" /\ pg.source.kind = "full"
    /\ pg.pc = "request" /\ ~pg.failed
    /\ pg.requests > PageCeiling + 1
    /\ Len(pg.collected) = (pg.requests - 1) * SyncBatchSize

\* against the always-full source the loop of syncContentTypes ends only when
\* a request fails
C26_FullSourceEndsOnlyByFailure ==
    (pg.loop = "syncContentTypes" /\ pg.source.kind = "full" /\ pg.pc = "done")
    => pg.failed

\* C27: the retry decision of a page request is made on the failure of the
\* source: a request whose failure is of category NETWORK, TIMEOUT, RATE_LIMIT
\* or SERVER_ERROR (HTTP 500, 502, 503, 504, 429) is attempted maxRetries + 1
\* times before its pair is marked failed.
C27_RetryableSourceFailureIsReattempted ==
    (pg.failed /\ categorizeError(pg.failure) \in RetryableCategories)
    => pg.attempt = pg.maxRetries + 1

\* a pair was marked failed at the first attempt of a request that the source
\* answered with HTTP 500, although three retries were configured
C27_Witness ==
    /\ pg.pc = "done" /\ pg.failed
    /\ pg.failure.status = 500
    /\ categorizeError(pg.failure) = "SERVER_ERROR"
    /\ categorizeError(pg.thrown) = "UNKNOWN"
    /\ pg.attempt = 1 /\ pg.maxRetries = 3

\* the part that holds: the decision is taken on the error the operation raises
C27_DecisionOnRaisedError ==
    pg.failed => (pg.attempt = pg.maxRetries + 1 \/ ~isRetryableError(pg.thrown))

\* and it agrees with the category of the source's failure except for HTTP 500
C27_ReattemptedUnlessStatus500 ==
    (pg.failed /\ categorizeError(pg.failure) \in RetryableCategories
       /\ HttpStatus(pg.failure) # 500)
    => pg.attempt = pg.maxRetries + 1

(***************************************************************************)
(* Properties of the embedding batches (SpecEmbed)                         *)
(***************************************************************************)
\* C28: the provider call of each embedding batch runs under the retry engine:
\* the entries of a batch get a null embedding only when the call has failed
\* again after being retried, so a failed batch has seen more than one call.
C28_NullOnlyAfterRetries ==
    em.phase \in { "embedded", "done" }
    => \A b \in em.failedBatches : em.calls[b] > 1

\* a batch whose one provider call failed has null embeddings for its entries
C28_Witness ==
    /\ em.phase = "embedded"
    /\ \E b \in em.failedBatches :
         /\ em.calls[b] = 1
         /\ \A i \in 1..Len(em.entries) :
              BatchOf(i, EmbedBatchSize) = b => em.embeddings[i] = NullEmbedding

(***************************************************************************)
(* Properties of the batch upsert (SpecUpsert)                             *)
(***************************************************************************)
\* the ids of batch number b of the rows, by position in the input
ExpectedBatchIds(rows, b) ==
    [ k \in 1..(Min(Len(rows), b * UpsertBatchSize) - (b - 1) * UpsertBatchSize) |->
        rows[(b - 1) * UpsertBatchSize + k].id ]

\* C29: batchUpsertContentEntries hands the rows to the store in batches of at
\* most 100, in input order; when the write of batch k fails the call raises
\* at once: batch k is not attempted again, no batch after k is attempted, and
\* the batches before k remain written.
C29_UpsertStopsAtFirstFailedBatch ==
    /\ \A b \in 1..Len(up.calls) :
         /\ Len(up.calls[b]) <= UpsertBatchSize
         /\ up.calls[b] = ExpectedBatchIds(up.entries, b)
    /\ up.pc = "returned" =>
         /\ up.failed = 0
         /\ Len(up.calls) = NumBatches(Len(up.entries), UpsertBatchSize)
         /\ up.table = UpsertBatches(up.atStart, up.entries, Len(up.calls))
    /\ up.failed # 0 =>
         /\ up.pc = "raised"
         /\ Len(up.calls) = up.failed
         /\ up.table = UpsertBatches(up.atStart, up.entries, up.failed - 1)

\* the second of three batches failed: the call has raised after two upserts,
\* the first hundred rows are in the table and none of the others is
C29_Witness ==
    /\ up.pc = "raised" /\ up.failed = 2
    /\ NumBatches(Len(up.entries), UpsertBatchSize) = 3
    /\ Len(up.calls) = 2
    /\ up.atStart = << >>
    /\ DOMAIN up.table = { up.entries[k].id : k \in 1..UpsertBatchSize }

\* the pair is fetched by getAllEntries from an honest source that needs no
\* more pages than the ceiling
HonestWithinCeiling ==
    /\ pg.loop = "getAllEntries" /\ pg.source.kind = "honest"
    /\ PagesNeeded(pg.source.total, pg.pageSize) <= PageCeiling

\* C30: against a source that reports its true total count and returns
\* min(pageSize, remaining) records per request, getAllEntries requests
\* skip = 0, pageSize, 2 * pageSize, ..., stops the pair when a page is empty or
\* skip has reached the total count, and returns every record exactly once,
\* provided the pair needs no more pages than the ceiling.
C30_HonestSourceIsPagedCompletely ==
    HonestWithinCeiling =>
        /\ \A j \in 1..Len(pg.skips) : pg.skips[j] = (j - 1) * pg.pageSize
        /\ Len(pg.skips) = pg.requests
        /\ (pg.pc = "request" /\ pg.requests > 1) => pg.skip < pg.source.total
        /\ (pg.pc = "done" /\ ~pg.failed) =>
              /\ pg.emptyPage \/ pg.skip >= pg.source.total
              /\ pg.collected = [ k \in 1..pg.source.total |-> k ]

\* the hundred pages of a source that needs exactly as many pages as the
\* ceiling allows have been requested and all its records are returned
C30_Witness ==
    /\ HonestWithinCeiling
    /\ pg.pc = "done" /\ ~pg.failed
    /\ pg.source.total = PageCeiling * pg.pageSize
    /\ pg.pageSize > 1
    /\ pg.requests = PageCeiling
    /\ pg.skips[pg.requests] = (PageCeiling - 1) * pg.pageSize
    /\ Len(pg.collected) = pg.source.total

(***************************************************************************)
(* Properties of getAllEntries (SpecFetch)                                 *)
(***************************************************************************)
\* position of a content type among the discovered ones, of a locale among
\* the locales of the call
TypeIndex(uid) == CHOOSE i \in 1..Len(fa.contentTypes) : fa.contentTypes[i] = uid

LocaleIndex(locale) == CHOOSE i \in 1..Len(fa.locales) : fa.locales[i] = locale

SamePair(a, b) == a.uid = b.uid /\ a.locale = b.locale

\* request a comes before request b in category-then-locale-then-page order
RequestBefore(a, b) ==
    \/ TypeIndex(a.uid) < TypeIndex(b.uid)
    \/ a.uid = b.uid /\ LocaleIndex(a.locale) < LocaleIndex(b.locale)
    \/ SamePair(a, b) /\ a.skip < b.skip

PageSucceeded(request) == request.ok

\* the transformed records of the page a logged request asked for
RecordsOfRequest(request) ==
    TransformPage(PageEntries([ kind |-> "honest",
                                total |-> fa.source.recs[<< request.uid, request.locale >>] ],
                              request.skip, fa.batchSize),
                  request.uid, request.locale)

\* C31: getAllEntries returns the concatenation, in category-then-locale-then-
\* page order, of the transformed records of exactly the pages that were
\* fetched successfully: when page k of a pair fails after its retries, the
\* records of the pair's pages 1..k-1 are returned, no further page of the pair
\* is requested, and no record of the failed page appears.
C31_ReturnsExactlyTheFetchedPages ==
    fa.pc \in { "page", "returned" } =>
        LET fetched == SelectSeq(fa.log, PageSucceeded) IN
        /\ fa.allEntries = Concat([ j \in 1..Len(fetched) |-> RecordsOfRequest(fetched[j]) ])
        /\ \A j, k \in 1..Len(fa.log) : j < k => RequestBefore(fa.log[j], fa.log[k])
        /\ \A j \in 1..Len(fa.log) :
             /\ fa.log[j].skip =
                   fa.batchSize * Cardinality({ i \in 1..(j - 1) : SamePair(fa.log[i], fa.log[j]) })
             /\ ~fa.log[j].ok =>
                   /\ \A k \in (j + 1)..Len(fa.log) : ~SamePair(fa.log[j], fa.log[k])
                   /\ \A i \in 1..Len(fa.allEntries) :
                        ~(/\ fa.allEntries[i].content_type = fa.log[j].uid
                          /\ fa.allEntries[i].locale = fa.log[j].locale
                          /\ fa.allEntries[i].uid[1] > fa.log[j].skip)

\* the call has returned; the second page of the first pair failed, its first
\* page is at the head of the result and entries of a later pair follow it
C31_Witness ==
    /\ fa.pc = "returned"
    /\ Len(fa.log) >= 3
    /\ fa.log[1].ok /\ ~fa.log[2].ok /\ SamePair(fa.log[1], fa.log[2])
    /\ fa.log[2].skip = fa.batchSize
    /\ fa.source.recs[<< fa.log[1].uid, fa.log[1].locale >>] > fa.batchSize
    /\ Len(fa.allEntries) > fa.batchSize
    /\ \A i \in 1..fa.batchSize : fa.allEntries[i] = RecordsOfRequest(fa.log[1])[i]
    /\ ~SamePair(fa.log[3], fa.log[1])
    /\ fa.allEntries[fa.batchSize + 1].locale # fa.log[1].locale

(***************************************************************************)
(* Properties of withRetry (SpecRetry), continued                          *)
(***************************************************************************)
\* C32: when withRetry gives up, after maxRetries + 1 failed attempts or on
\* the first failure that is not retryable, the error it raises is the very
\* error the final attempt threw: not the error of an earlier attempt and not
\* a wrapper around it.
C32_RaisesErrorOfFinalAttempt ==
    rt.pc = "raised" =>
        /\ rt.thrown = rt.lastError
        /\ rt.thrown.attempt = rt.calls
        /\ rt.thrown.error \in SampleErrors
        /\ rt.calls = rt.maxRetries + 1 \/ ~isRetryableError(rt.thrown.error)

\* withRetry gave up at its third attempt on an error that is not retryable,
\* after a first attempt that failed with another error
C32_Witness ==
    /\ rt.pc = "raised"
    /\ rt.calls = 3 /\ rt.maxRetries = 3
    /\ rt.thrown.attempt = 3
    /\ ~isRetryableError(rt.thrown.error)
    /\ rt.firstError.error # rt.thrown.error

C33_WitnessUncapped ==
    /\ rt.pc = "sleep" /\ rt.attempt = 2
    /\ rt.delay = 2 * rt.baseDelay + rt.jitter
    /\ rt.delay < rt.maxDelay /\ rt.baseDelay > 0 /\ rt.jitter > 0

(***************************************************************************)
(* Properties of categorizeError (SpecClassify), continued                 *)
(***************************************************************************)
\* the category a structured provider error code names, "none" when it names none
CodeCategory(e) ==
    CASE e.error_code = "UNAUTHORIZED" -> "AUTHENTICATION"
      [] e.error_code = "FORBIDDEN" -> "AUTHORIZATION"
      [] e.error_code = "RATE_LIMIT_EXCEEDED" -> "RATE_LIMIT"
      [] OTHER -> "none"

\* the category an HTTP status code names, "none" when it names none
StatusCategory(e) ==
    LET st == HttpStatus(e) IN
    CASE st = 401 -> "AUTHENTICATION"
      [] st = 403 -> "AUTHORIZATION"
      [] st = 404 -> "NOT_FOUND"
      [] st = 429 -> "RATE_LIMIT"
      [] st >= 500 -> "SERVER_ERROR"
      [] st >= 400 -> "CLIENT_ERROR"
      [] OTHER -> "none"

\* C34: categorizeError resolves the category in strict priority order:
\* structured provider error code, then HTTP status code, then message
\* patterns; a signal of higher priority that names a category is not
\* overruled by one of lower priority, and the result is always one of the
\* ten categories.
C34_StrictPriorityOfSignals ==
    cls.phase \in { "categorized", "decided" } =>
        /\ cls.category \in Categories
        /\ CodeCategory(cls.error) # "none" => cls.category = CodeCategory(cls.error)
        /\ (CodeCategory(cls.error) = "none" /\ StatusCategory(cls.error) # "none")
              => cls.category = StatusCategory(cls.error)
        /\ (CodeCategory(cls.error) = "none" /\ StatusCategory(cls.error) = "none")
              => cls.category = CategorizeByMessage(cls.error.message)

\* an error with provider code FORBIDDEN and status 401 is categorized
\* AUTHENTICATION: the status has overruled the code
C34_Witness ==
    /\ cls.phase = "categorized"
    /\ cls.error.error_code = "FORBIDDEN" /\ cls.error.status = 401
    /\ CodeCategory(cls.error) = "AUTHORIZATION"
    /\ cls.category = "AUTHENTICATION"

\* the parts that hold: one of the ten categories; the message decides only
\* when neither the provider code nor a status names a category; for an error
\* without provider fields a status that names a category decides
C34_TenCategoriesAndMessageLast ==
    cls.phase \in { "categorized", "decided" } =>
        LET e == cls.error
            structured == e.error_code # NoCode \/ e.error_message
        IN /\ cls.category \in Categories
           /\ (~structured /\ StatusCategory(e) # "none") => cls.category = StatusCategory(e)
           /\ (CodeCategory(e) # "none" \/ StatusCategory(e) # "none")
                 => cls.category \in { CodeCategory(e), StatusCategory(e), "CLIENT_ERROR" }
           /\ (CodeCategory(e) = "none" /\ StatusCategory(e) = "none")
                 => cls.category = CategorizeByMessage(e.message)

\* an error as a socket or DNS failure gives it: a code and a message, no
\* provider fields and no HTTP status
PlainNetworkError(e) ==
    /\ e.code # NoCode
    /\ e.error_code = NoCode /\ ~e.error_message
    /\ e.status = 0 /\ e.statusCode = 0

\* C35: categorizeError classifies an error by its network error code: code
\* ETIMEDOUT gives TIMEOUT, codes ECONNRESET and ENOTFOUND give NETWORK, also
\* when the message is only the generic text "Network error".
C35_CategoryFollowsNetworkCode ==
    (cls.phase \in { "categorized", "decided" } /\ PlainNetworkError(cls.error)
       /\ cls.error.message = { "network error" })
    => cls.category = IF cls.error.code = "ETIMEDOUT" THEN "TIMEOUT" ELSE "NETWORK"

\* an error with code ETIMEDOUT and the message "Network error" is categorized
\* NETWORK
C35_Witness ==
    /\ cls.phase = "categorized"
    /\ PlainNetworkError(cls.error)
    /\ cls.error.code = "ETIMEDOUT"
    /\ cls.error.message = { "network error" }
    /\ cls.category = "NETWORK"

\* the part that holds: the code is not read; the category of such an error is
\* the one its message gives
C35_CategoryFollowsMessage ==
    (cls.phase \in { "categorized", "decided" } /\ PlainNetworkError(cls.error))
    => cls.category = CategorizeByMessage(cls.error.message)

(***************************************************************************)
(* Properties of truncateText (SpecTruncate)                               *)
(***************************************************************************)
\* C36: every text sent to the embedding provider has at most maxTokens * 4
\* characters: a longer text is cut at the last word boundary before the
\* limit, and the truncated result never exceeds the limit.
C36_PreparedTextWithinBudget ==
    tx.phase = "prepared" => Len(tx.prepared) <= tx.maxTokens * CharsPerToken

\* a text of nine characters without a space, prepared for a budget of two
\* tokens, is sent with eleven characters: eight of its own and the "..."
C36_Witness ==
    /\ tx.phase = "prepared" /\ tx.maxTokens = 2
    /\ Len(tx.text) = 9 /\ \A i \in 1..Len(tx.text) : tx.text[i] # " "
    /\ Len(tx.prepared) = tx.maxTokens * CharsPerToken + Len(Ellipsis)
    /\ SubSeq(tx.prepared, 1, 8) = SubSeq(tx.text, 1, 8)

\* the part that holds: a text within the budget is sent as it is, a longer
\* one is sent as a prefix of at most maxTokens * 4 characters followed by "..."
C36_PrefixPlusEllipsis ==
    tx.phase = "prepared" =>
        LET maxChars == tx.maxTokens * CharsPerToken IN
        IF Len(tx.text) <= maxChars THEN tx.prepared = tx.text
        ELSE \E n \in 0..maxChars :
               /\ tx.prepared = SubSeq(tx.text, 1, n) \o Ellipsis
               /\ n = maxChars \/ (tx.text[n + 1] = " " /\ 10 * n > 8 * maxChars)

(***************************************************************************)
(* Properties of the run statistics (SpecCalls)                            *)
(***************************************************************************)
\* an execution of syncContentTypes is in flight
SyncInFlight == \E x \in Active : flights[x].op = "syncContentTypes"

SyncEnded == last.pc = "done" /\ last.op = "syncContentTypes"

\* C37: syncContentTypes() changes no field of the run statistics: from its
\* call to its end, whether it completes, finds no entries or raises,
\* totalRuns, successfulRuns, lastRunStatus, lastError and lastSyncTime keep
\* the values they had before the call; only isRunning changes.
C37_SyncContentTypesLeavesStatistics ==
    [][ /\ (SyncInFlight \/ event'.op = "syncContentTypes") =>
              /\ syncStats' = syncStats
              /\ lastSyncTime' = lastSyncTime
        /\ (Finishes /\ last'.op = "syncContentTypes") =>
              /\ syncStats' = last'.statsAtStart
              /\ last'.term \in { "completed", "no_entries", "error" } ]_vars

\* a selective sync raised after a successful run: the statistics still tell
\* of the successful run
C37_Witness ==
    /\ SyncEnded
    /\ last.term = "error"
    /\ last.outcome = "raised"
    /\ last.prevTerm = "success"
    /\ syncStats = [ totalRuns |-> 1, successfulRuns |-> 1,
                     lastRunStatus |-> "success", lastError |-> NullError ]
    /\ lastSyncTime = 1

\* each way a selective sync ends is reached with the statistics of a run
C37_WitnessCompleted ==
    SyncEnded /\ last.term = "completed" /\ syncStats.totalRuns = 1

C37_WitnessNoEntries ==
    SyncEnded /\ last.term = "no_entries" /\ syncStats.totalRuns = 1

\* a run() passes the guard: a new execution of run is in flight
RunAdmitted == admitted' = admitted + 1 /\ flights'[admitted'].op = "run"

\* C38: through any sequence of run(), syncContentTypes() and getStatus()
\* calls 0 <= successfulRuns <= totalRuns, neither counter decreases, and
\* totalRuns counts the run() invocations that passed the guard: it goes up
\* by one at the admission of a run, whatever the run ends in, and at no
\* other step.
C38_CountersCountAdmittedRuns ==
    /\ [](0 <= syncStats.successfulRuns /\ syncStats.successfulRuns <= syncStats.totalRuns)
    /\ [][ /\ syncStats'.totalRuns = syncStats.totalRuns + (IF RunAdmitted THEN 1 ELSE 0)
           /\ syncStats'.successfulRuns >= syncStats.successfulRuns ]_vars

\* two runs were admitted and getStatus() was called; the first run
\* succeeded, the second raised: 1 of 2
C38_Witness ==
    /\ RunEnded
    /\ last.id = 2
    /\ last.term = "error"
    /\ last.prevTerm = "success"
    /\ statusObj.returned
    /\ syncStats.totalRuns = 2
    /\ syncStats.successfulRuns = 1

\* a run() ends in one of the given terms
RunEndsIn(terms) == Finishes /\ last'.op = "run" /\ last'.term \in terms

\* C39: lastError is set only by a run ending in error and cleared only by a
\* run ending in success: while lastRunStatus is success lastError is null,
\* while it is error lastError is not null, and a run ending in no_content or
\* no_embeddings leaves lastError and lastSyncTime as the run before left them.
C39_LastErrorFollowsErrorAndSuccess ==
    /\ [](syncStats.lastRunStatus = "success" => syncStats.lastError = NullError)
    /\ [](syncStats.lastRunStatus = "error" => syncStats.lastError # NullError)
    /\ [][ /\ (syncStats'.lastError # syncStats.lastError) =>
                 \/ RunEndsIn({ "error" }) /\ syncStats'.lastError # NullError
                 \/ RunEndsIn({ "success" }) /\ syncStats'.lastError = NullError
           /\ RunEndsIn({ "no_content", "no_embeddings" }) =>
                 /\ syncStats'.lastError = syncStats.lastError
                 /\ syncStats'.lastError = last'.statsAtStart.lastError
                 /\ lastSyncTime' = lastSyncTime ]_vars

\* a run found no content after a run that raised: the error of the run
\* before is still recorded
C39_Witness ==
    /\ RunEnded
    /\ last.term = "no_content"
    /\ last.prevTerm = "error"
    /\ syncStats.lastRunStatus = "no_content"
    /\ syncStats.lastError # NullError
    /\ syncStats.lastError = last.statsAtStart.lastError

\* the same for a run whose entries all lost their embedding
C39_WitnessNoEmbeddings ==
    /\ RunEnded
    /\ last.term = "no_embeddings"
    /\ last.prevTerm = "error"
    /\ syncStats.lastError # NullError

\* a success after an error clears the record
C39_WitnessCleared ==
    /\ RunEnded
    /\ last.term = "success"
    /\ last.prevTerm = "error"
    /\ syncStats.lastError = NullError

====
